---- MODULE Spec2Model ----
(***************************************************************************)
(* Vafrum Bridge (src/main.js): the per-device control sessions with their *)
(* reconnect policy, the roster events that create and remove them, the    *)
(* camera-acquisition sessions they start, and the telemetry handler.      *)
(*                                                                         *)
(* Optional JavaScript values are sequences: <<>> is undefined/null and    *)
(* <<v>> is the value v, so that `a ?? b` is Opt(a, b).  Strings that the  *)
(* code searches (model names) are sequences of one-character strings.     *)
(***************************************************************************)
EXTENDS Integers, Sequences, FiniteSets, TLC

\* ------------------------------------------------------------------ bounds
\* MQTT client objects that may be alive at once for one device.
MaxClients == 2
\* Cap of the reconnect-attempt counter in the backoff specification (the delay
\* reaches its cap of 120 s at 5 attempts), and in the other specifications.
MaxAttempts == 7
MaxAttemptsSession == 2
\* Pending reconnect timers of one device that the timer map no longer holds.
MaxOrphanTimers == 1
\* Entries of the pendingStreams queue.
MaxPending == 1
\* Pending delayed calls of startRtspFrameRelay for one device.
MaxRelayStarts == 1
\* Pending 2 s ready timers of startGo2rtc.
MaxReadyTimers == 1
\* Closes in a row in the command specification.
MaxAttemptsCommands == 1
\* Local subscribers of a camera session.
MaxSubscribers == 1
\* 'bridge:frame' events of a camera session.
MaxForwarded == 3
\* Date.now() when the application has started, and the step of the clock.
StartTime == 1000
TickMs == 100
\* How long the throttle specification runs, in ms.
ThrottleHorizon == 400
MaxSockets == 2
MaxSpawns == 3
MaxRequests == 3
MaxRetries == 6
MaxStreamCloses == 1
WatchHorizon == 180000
RelayHorizon == 70000
MaxConfigStarts == 2
SuperHorizon == 6000
\* How long the queue specification runs, in ms.
QueueHorizon == 3500
\* How long the error-log specification runs, in ms.
ErrorLogHorizon == 70000
\* pending pushall timers of a device
MaxPushall == 1

\* ------------------------------------------------------- program constants
ReconnectBaseMs == 5000
ReconnectFactor == 2
ReconnectCapMs == 120000
Mask16 == 65536
\* a frame is valid when it is longer than this
MinJpegLength == 100
\* the least distance of two forwarded frames, in ms
ThrottleMs == 200
\* the least distance of two logged transport errors of a device, in ms (exclusive)
ErrorLogThrottleMs == 60000
\* the period of a camera watchdog, and its limits of silence, in ms
WatchdogIntervalMs == 30000
SilenceLimitMs == 60000
NoDataLimitMs == 30000
\* the retry delay of a camera connection: base, and cap, in ms
StreamDelayBaseMs == 5000
StreamDelayCapMs == 30000
\* the failed pulls and the silent watchdog checks that call for a regeneration
RelayAttemptsLimit == 5
WatchdogRetriesLimit == 3
\* the delays of the transcoder's timers, in ms
RelaunchDelayMs == 3000
RestartDelayMs == 1000
RegistrationRestartDelayMs == 2000
ConfigStartDelayMs == 500
RelayRestartDelayMs == 3000
ThenStartDelayMs == 5000
\* the fan speeds a command may carry: 0..100
FanInputMax == 100

\* The devices; the specifications of one device's session drive the first.
Serials == {"SN1", "SN2"}
Primary == {"SN1"}
Upstreams == {1, 2}
ClientIds == 1..MaxClients

\* ----------------------------------------------------------------- helpers
Min(a, b) == IF a <= b THEN a ELSE b

RECURSIVE Pow(_, _)
Pow(b, n) == IF n = 0 THEN 1 ELSE b * Pow(b, n - 1)

\* a ?? b
Opt(a, b) == IF a # <<>> THEN a ELSE b

UpperOf(ch) ==
  CASE ch = "a" -> "A" [] ch = "c" -> "C" [] ch = "d" -> "D" [] ch = "h" -> "H"
    [] ch = "p" -> "P" [] ch = "s" -> "S" [] ch = "x" -> "X" [] OTHER -> ch

toUpperCase(str) == [i \in 1..Len(str) |-> UpperOf(str[i])]

includes(str, sub) ==
  \E i \in 1..(Len(str) - Len(sub) + 1) : SubSeq(str, i, i + Len(sub) - 1) = sub

\* ---------------------------------------------------------- stream groups
STREAM_GROUP_2 ==
  { <<"H","2","D">>, <<"H","2">>, <<"H","2","C">>, <<"H","2","S">>,
    <<"X","1">>, <<"X","1","C">>, <<"X","1","E">>, <<"P","2","S">> }

\* A classification that compares the model as written: C22 must tell it from
\* the code's.
getStreamGroupAsWritten(model) ==
  IF model = <<>> THEN 1
  ELSE IF \E g2 \in STREAM_GROUP_2 : includes(model, g2) THEN 2
  ELSE 1
getStreamGroup(model) ==
  IF model = <<>> THEN 1
  ELSE IF \E g2 \in STREAM_GROUP_2 : includes(toUpperCase(model), g2) THEN 2
  ELSE 1

\* ------------------------------------------------------------ device data
\* The models a roster event may carry: of stream group 1, and of both groups.
DirectModels == { <<"A","1">> }
RosterModels == { <<"A","1">>, <<"h","2","d">> }

NoPrinter == [serialNumber |-> "", ipAddress |-> "", accessCode |-> "", model |-> <<>>]

\* A roster record; an empty address makes the handlers skip the device.
RosterRecords(s, models) ==
  { [serialNumber |-> s, ipAddress |-> ip, accessCode |-> "code", model |-> m] :
      ip \in {"", "10.0.0.2"}, m \in models }

Connectable(p) == p.serialNumber # "" /\ p.ipAddress # "" /\ p.accessCode # ""

\* amsNozzleLock is client._amsNozzleLock.unit_0: <<>> while undefined
NoClient == [st |-> "none", printer |-> NoPrinter, amsNozzleLock |-> <<>>]

\* ------------------------------------------------------ telemetry snapshot
NoEntry ==
  [ has |-> FALSE, model |-> <<>>, online |-> FALSE,
    gcodeState |-> <<>>, printProgress |-> <<>>, remainingTime |-> <<>>,
    currentFile |-> <<>>, layer |-> <<>>,
    nozzleTemp |-> <<>>, nozzleTargetTemp |-> <<>>,
    nozzleTemp2 |-> <<>>, nozzleTargetTemp2 |-> <<>>,
    bedTemp |-> <<>>, bedTargetTemp |-> <<>>, chamberTemp |-> <<>>,
    wifiSignal |-> <<>>, printError |-> <<>>, printErrorCode |-> <<>>,
    hms |-> <<>>, amsNozzle |-> <<>> ]

\* printers.set(serial, { ...printer, online: true })
FreshEntry(p) == [NoEntry EXCEPT !.has = TRUE, !.model = p.model, !.online = TRUE]

VARIABLES
  apiConnected,            \* [Upstreams -> BOOLEAN]: apiSocket?.connected, apiSocket2?.connected
  mqttClients,             \* [Serials -> 0..MaxClients]: the registered client, 0 for none
  clients,                 \* [Serials -> [ClientIds -> client]]: the mqtt client objects alive
  printers,                \* [Serials -> snapshot]: the telemetry store
  printerDataCache,        \* [Serials -> roster record or NoPrinter]
  printerReconnectTimers,  \* [Serials -> record]: `cached` of the timer the map holds, or NoPrinter
  orphanTimers,            \* [Serials -> Seq(record)]: `cached` of the pending timers the map lost
  reconnectAttempts,       \* [Serials -> Nat]
  jpegStreams,             \* [Serials -> BOOLEAN]: a Direct session (watchdog, socket) exists
  rtspFrameRelays,         \* [Serials -> BOOLEAN]: a Relay pull (with watchdog) exists
  cameraStreams,           \* the serials s with 'cam_'+s registered
  pendingStreams,          \* queue of [serial, model]
  relayStarts,             \* [Serials -> Nat]: registrations/timers that will call startRtspFrameRelay
  go2rtcProcess,           \* BOOLEAN: a transcoder process is alive
  go2rtcReady,             \* BOOLEAN
  readyTimers,             \* Nat: pending 2 s timers of startGo2rtc
  go2rtcWatchdogTimer,     \* BOOLEAN: the 3 s relaunch timer is pending
  armedDelay,              \* [Serials -> Nat]: delay of the last setTimeout of scheduleReconnect
  failures,                \* [Serials -> Nat]: closes since the last 'connect' event (history)
  inRoster,                \* [Serials -> BOOLEAN]: last roster event named / removed it (history)
  lastEvent,               \* the handler that ran last (history)
  emitted,                 \* the 'printer:status' events and log lines the last handler emitted
  lastFrame,               \* the frame handled last (history, telemetry specification)
  deviceState,             \* [Serials -> [before, now]]: gcode_state the device reported (history)
  prevEntry,               \* the snapshot before the frame handled last (history)
  published,               \* the payloads the last handler published, in order
  lastCommand,             \* the command executeCommand ran last (history)
  pushallTimers            \* [Serials -> Nat]: pending 2 s pushall timers of amsFilamentSetting

sessionVars ==
  << mqttClients, clients, printers, printerDataCache, printerReconnectTimers,
     orphanTimers, reconnectAttempts, armedDelay, failures, inRoster >>
cameraVars ==
  << jpegStreams, rtspFrameRelays, cameraStreams, pendingStreams, relayStarts >>
go2rtcVars == << go2rtcProcess, go2rtcReady, readyTimers, go2rtcWatchdogTimer >>
frameVars == << lastFrame, deviceState, prevEntry >>
commandVars == << lastCommand, pushallTimers >>

\* The throttle of the transport-error log.
VARIABLES
  mqttErrorThrottle,       \* [Serials -> <<>> or << lastLogTime >>]: the entry of the Map, if any
  errorLogged,             \* [Serials -> <<>> or << ts >>]: when the last 'Fehler' line of the
                           \* device was logged (history)
  armedAt                  \* [Serials -> Nat]: when the last setTimeout of scheduleReconnect
                           \* was made; the timer is due armedDelay later

\* The temperature decoding on its own.
VARIABLES
  encodedTemp,             \* the argument of decodeTemp: <<>> (undefined, null) or << int32 >>
  decodedTemp              \* <<>> or << what decodeTemp returned for it >>

decodeVars == << encodedTemp, decodedTemp >>
logVars == << mqttErrorThrottle, errorLogged, armedAt, decodeVars >>

\* The byte path of a camera session.
VARIABLES
  buffer,                  \* streamData.buffer / relayData.buffer: the bytes not yet consumed
  chunks,                  \* the 'data' events still to come, each a sequence of bytes
  produced,                \* the frames extracted so far, in order (history)
  streamIn                 \* the parts of the stream the device sends (history)

extractVars == << buffer, chunks, produced, streamIn >>

\* The camera sessions in time.
VARIABLES
  now,                     \* Date.now(), in ms since an arbitrary origin
  streamData,              \* [Serials -> record]: the entry of jpegStreams
  relayData,               \* [Serials -> record]: the entry of rtspFrameRelays
  forwarded,               \* [Serials -> Seq]: the 'bridge:frame' events emitted, with their ts (history)
  extracted,               \* the frames of valid length the last handler extracted, in order (history)
  written                  \* the frames the last handler wrote to local subscribers, in order

streamVars == << now, streamData, relayData, forwarded, extracted, written >>

\* The transcoder's supervisor in time.  A timer is the time at which it is due.
VARIABLES
  processes,               \* [ProcIds -> record]: the transcoder processes spawned so far
  handle,                  \* go2rtcProcess: the process it refers to, 0 for null
  isQuitting,              \* app.isQuitting
  relaunchTimer,           \* go2rtcWatchdogTimer while pending: <<>> or << due >>
  go2rtcRestartTimer,      \* the pending timer of a requested regeneration: <<>> or << [due, then] >>
  configStarts,            \* the due times of the pending delayed startGo2rtcWithConfig
  relayRestarts,           \* the pending timers that start relays: [due, only], of every stream or of one
  requests,                \* the regeneration requests made so far (history)
  regenerations            \* the runs of restartGo2rtcWithAllStreams: [at, streams], the time and the
                           \* streams of the configuration file it wrote; the last is the file

superVars ==
  << processes, handle, isQuitting, relaunchTimer, go2rtcRestartTimer, configStarts,
     relayRestarts, requests, regenerations >>
mediaVars == << extractVars, streamVars, superVars >>
vars ==
  << apiConnected, sessionVars, cameraVars, go2rtcVars, frameVars, commandVars, logVars, mediaVars,
     lastEvent, emitted, published >>

Event(type, s) == [type |-> type, serialNumber |-> s]

\* ----------------------------------------------------------------- payloads
\* A payload published on 'device/<serial>/request': its command, its
\* sequence_id and user_id (<<>>: the payload has none) and what else it says.
Payload(s, command, seq, uid, param) ==
  [ serial |-> s, command |-> command, sequence_id |-> seq, user_id |-> uid, param |-> param ]

\* The two requests the connect handler publishes.
ConnectRequests(s) ==
  << Payload(s, "get_version", << "0" >>, <<>>, <<>>),
     Payload(s, "pushall", << "0" >>, <<>>, <<>>) >>


\* ----------------------------------------------------------- connectPrinter
HasFree(s) == \E c \in ClientIds : clients[s][c].st = "none"
FreeSlot(s) ==
  CHOOSE c \in ClientIds :
    clients[s][c].st = "none" /\ \A d \in ClientIds : d < c => clients[s][d].st # "none"

\* The guard of connectPrinter: it returns at once when a client is registered.
Opens(s) == mqttClients[s] = 0

\* connectPrinter(p) for the device s: it caches p, cancels the timer the map
\* holds and creates a client, which registers itself only on 'connect'.
ConnectPrinter(s, p) ==
  IF Opens(s)
    THEN /\ printerDataCache' = [printerDataCache EXCEPT ![s] = p]
         /\ printerReconnectTimers' = [printerReconnectTimers EXCEPT ![s] = NoPrinter]
         /\ clients' = [clients EXCEPT ![s][FreeSlot(s)] = [st |-> "connecting", printer |-> p, amsNozzleLock |-> <<>>]]
    ELSE UNCHANGED << printerDataCache, printerReconnectTimers, clients >>


\* ---------------------------------------------------------- reconnect policy
\* A policy that caps the delay at 60 s: C1 must tell it from the code's.
ReconnectDelayCap60(attempts) ==
  Min(ReconnectBaseMs * Pow(ReconnectFactor, attempts), 60000)
\* delay = Math.min(5000 * Math.pow(2, attempts), 120000)
ReconnectDelay(attempts) ==
  Min(ReconnectBaseMs * Pow(ReconnectFactor, attempts), ReconnectCapMs)

\* A policy that never arms a timer: C7 must tell it from the code's.
NeverSchedules(cached, registered) == FALSE
\* The two early returns of scheduleReconnect: no cached record, or a registered client.
Schedules(cached, registered) == cached # NoPrinter /\ ~registered

\* scheduleReconnect(s), called by the close handler after mqttClients.delete(s).
\* The new timer takes the map entry; a timer the entry held stays pending.
scheduleReconnect(s) ==
  IF Schedules(printerDataCache[s], FALSE)
    THEN /\ reconnectAttempts' = [reconnectAttempts EXCEPT ![s] = @ + 1]
         /\ armedDelay' = [armedDelay EXCEPT ![s] = ReconnectDelay(reconnectAttempts[s])]
         /\ armedAt' = [armedAt EXCEPT ![s] = now]
         /\ orphanTimers' =
              [orphanTimers EXCEPT ![s] =
                 IF printerReconnectTimers[s] # NoPrinter
                   THEN Append(@, printerReconnectTimers[s]) ELSE @]
         /\ printerReconnectTimers' = [printerReconnectTimers EXCEPT ![s] = printerDataCache[s]]
    ELSE UNCHANGED << reconnectAttempts, armedDelay, armedAt, orphanTimers, printerReconnectTimers >>

\* reconnectAttempts.delete(serial): the counter reads 0 again.
resetReconnectCounter(n) == 0

\* ------------------------------------------------------- camera acquisition
stopJpegStream(s) == jpegStreams' = [jpegStreams EXCEPT ![s] = FALSE]
stopRtspFrameRelay(s) == rtspFrameRelays' = [rtspFrameRelays EXCEPT ![s] = FALSE]

\* Room for what addCameraStream adds (the queue and the delayed starts are bounded).
CameraRoom(s, model) ==
  getStreamGroup(model) = 2 =>
    IF go2rtcReady THEN relayStarts[s] < MaxRelayStarts
    ELSE Len(pendingStreams) < MaxPending

\* addCameraStream(serial, accessCode, ip, model): group 1 starts a Direct session
\* (startJpegStream returns when one exists); group 2 is queued while the
\* transcoder is not ready, and otherwise registered, which ends in a delayed
\* call of startRtspFrameRelay.
addCameraStream(s, model) ==
  IF getStreamGroup(model) = 1
    THEN /\ jpegStreams' = [jpegStreams EXCEPT ![s] = TRUE]
         /\ UNCHANGED << pendingStreams, cameraStreams, relayStarts >>
    ELSE IF ~go2rtcReady
      THEN /\ pendingStreams' = Append(pendingStreams, [serial |-> s, model |-> model])
           /\ UNCHANGED << jpegStreams, cameraStreams, relayStarts >>
      ELSE /\ cameraStreams' = cameraStreams \cup {s}
           /\ relayStarts' = [relayStarts EXCEPT ![s] = @ + 1]
           /\ UNCHANGED << jpegStreams, pendingStreams >>

\* ------------------------------------------------------- upstream connection
\* socket.io 'connect' / 'disconnect' of the upstream i.
ApiConnect(i) ==
  /\ ~apiConnected[i]
  /\ apiConnected' = [apiConnected EXCEPT ![i] = TRUE]
  /\ lastEvent' = Event("api:connect", "")
  /\ emitted' = {}
  /\ published' = <<>>
  /\ UNCHANGED << sessionVars, cameraVars, go2rtcVars, frameVars, commandVars, logVars, mediaVars >>

ApiDisconnect(i) ==
  /\ apiConnected[i]
  /\ apiConnected' = [apiConnected EXCEPT ![i] = FALSE]
  /\ lastEvent' = Event("api:disconnect", "")
  /\ emitted' = {}
  /\ published' = <<>>
  /\ UNCHANGED << sessionVars, cameraVars, go2rtcVars, frameVars, commandVars, logVars, mediaVars >>

\* disconnectApi(): both upstream sockets are dropped, every registered client
\* is ended and unregistered, and the telemetry store is cleared.
DisconnectApi ==
  /\ apiConnected' = [i \in Upstreams |-> FALSE]
  /\ clients' = [s \in Serials |-> [c \in ClientIds |->
                   IF mqttClients[s] = c THEN [clients[s][c] EXCEPT !.st = "ending"]
                   ELSE clients[s][c]]]
  /\ mqttClients' = [s \in Serials |-> 0]
  /\ printers' = [s \in Serials |-> NoEntry]
  /\ lastEvent' = Event("disconnectApi", "")
  /\ emitted' = {}
  /\ published' = <<>>
  /\ UNCHANGED << printerDataCache, printerReconnectTimers, orphanTimers, reconnectAttempts,
                  armedDelay, failures, inRoster, cameraVars, go2rtcVars, frameVars,
                  commandVars, logVars, mediaVars >>

\* ------------------------------------------------------------ roster events
\* apiSocket.on('printer:add') and each element of apiSocket.on('printers:list').
RosterNames(type, s, p) ==
  /\ apiConnected[1]
  /\ (Connectable(p) /\ Opens(s)) => HasFree(s)
  /\ IF Connectable(p)
       THEN ConnectPrinter(s, p)
       ELSE UNCHANGED << printerDataCache, printerReconnectTimers, clients >>
  /\ inRoster' = [inRoster EXCEPT ![s] = TRUE]
  /\ lastEvent' = Event(type, s)
  /\ emitted' = {}
  /\ published' = <<>>
  /\ UNCHANGED << apiConnected, mqttClients, printers, orphanTimers, reconnectAttempts,
                  armedDelay, failures, cameraVars, go2rtcVars, frameVars, commandVars, logVars, mediaVars >>

PrinterAdd(s, p) == RosterNames("printer:add", s, p)

\* A roster snapshot; with one device its list is empty or names the device.
PrintersList(s, p) == RosterNames("printers:list", s, p)

\* apiSocket.on('printer:remove'): everything is inside `if (client)`.
PrinterRemove(s) ==
  /\ apiConnected[1]
  /\ IF mqttClients[s] # 0
       THEN /\ clients' = [clients EXCEPT ![s][mqttClients[s]].st = "ending"]
            /\ mqttClients' = [mqttClients EXCEPT ![s] = 0]
            /\ printers' = [printers EXCEPT ![s] = NoEntry]
            /\ cameraStreams' = cameraStreams \ {s}
            /\ stopJpegStream(s)
            /\ stopRtspFrameRelay(s)
       ELSE UNCHANGED << clients, mqttClients, printers, cameraStreams, jpegStreams,
                         rtspFrameRelays >>
  /\ inRoster' = [inRoster EXCEPT ![s] = FALSE]
  /\ lastEvent' = Event("printer:remove", s)
  /\ emitted' = {}
  /\ published' = <<>>
  /\ UNCHANGED << apiConnected, printerDataCache, printerReconnectTimers, orphanTimers,
                  reconnectAttempts, armedDelay, failures, pendingStreams, relayStarts,
                  go2rtcVars, frameVars, commandVars, logVars, mediaVars >>

\* ------------------------------------------------------ mqtt client events
\* client.on('connect')
ClientConnect(s, c) ==
  /\ clients[s][c].st = "connecting"
  /\ CameraRoom(s, clients[s][c].printer.model)
  /\ clients' = [clients EXCEPT ![s][c].st = "connected"]
  /\ mqttClients' = [mqttClients EXCEPT ![s] = c]
  /\ printers' = [printers EXCEPT ![s] = FreshEntry(clients[s][c].printer)]
  /\ reconnectAttempts' = [reconnectAttempts EXCEPT ![s] = resetReconnectCounter(@)]
  /\ mqttErrorThrottle' = [mqttErrorThrottle EXCEPT ![s] = <<>>]
  /\ addCameraStream(s, clients[s][c].printer.model)
  /\ failures' = [failures EXCEPT ![s] = 0]
  /\ lastEvent' = Event("connect", s)
  /\ emitted' = {}
  /\ published' = ConnectRequests(s)
  /\ UNCHANGED << apiConnected, printerDataCache, printerReconnectTimers, orphanTimers,
                  armedDelay, inRoster, rtspFrameRelays, go2rtcVars, frameVars, commandVars,
                  errorLogged, armedAt, decodeVars, mediaVars >>

\* A close handler that leaves out the second upstream: C8 must tell it from
\* the code's.
OfflineStatusFirstOnly(s) ==
  { [to |-> i, serialNumber |-> s, online |-> FALSE] : i \in {j \in {1} : apiConnected[j]} }
\* The offline status the close handler emits, to each connected upstream.
OfflineStatus(s) ==
  { [to |-> i, serialNumber |-> s, online |-> FALSE] : i \in {j \in Upstreams : apiConnected[j]} }

\* A close handler that drops every device's registration: C16 must tell it
\* from the code's.
UnregisterAll(s) == [r \in Serials |-> 0]
\* mqttClients.delete(printer.serialNumber)
Unregister(s) == [mqttClients EXCEPT ![s] = 0]

\* client.on('close'): of a failed attempt, a lost session or an ended client.
ClientClose(s, c, cap) ==
  /\ clients[s][c].st # "none"
  /\ reconnectAttempts[s] < cap
  /\ printerReconnectTimers[s] # NoPrinter => Len(orphanTimers[s]) < MaxOrphanTimers
  /\ clients' = [clients EXCEPT ![s][c] = NoClient]
  /\ mqttClients' = Unregister(s)
  /\ IF printers[s].has
       THEN /\ printers' = [printers EXCEPT ![s].online = FALSE]
            /\ emitted' = OfflineStatus(s)
       ELSE /\ UNCHANGED printers
            /\ emitted' = {}
  /\ scheduleReconnect(s)
  /\ failures' = [failures EXCEPT ![s] = @ + 1]
  /\ lastEvent' = Event("close", s)
  /\ published' = <<>>
  /\ UNCHANGED << apiConnected, printerDataCache, inRoster, cameraVars, go2rtcVars,
                  frameVars, commandVars, mqttErrorThrottle, errorLogged, decodeVars,
                  mediaVars >>

\* The setTimeout callback of scheduleReconnect.  k = 0 is the timer the map
\* holds and k > 0 the k-th pending timer it lost; the callback deletes the map
\* entry either way (a timer the entry held stays pending) and calls
\* connectPrinter(cached) with the record of its own closure.
RemoveAt(q, k) == SubSeq(q, 1, k - 1) \o SubSeq(q, k + 1, Len(q))

ReconnectTimer(s, k) ==
  /\ IF k = 0 THEN printerReconnectTimers[s] # NoPrinter ELSE k \in 1..Len(orphanTimers[s])
  /\ Opens(s) => HasFree(s)
  /\ LET cached == IF k = 0 THEN printerReconnectTimers[s] ELSE orphanTimers[s][k]
     IN /\ orphanTimers' =
             [orphanTimers EXCEPT ![s] =
                IF k = 0 THEN @
                ELSE IF printerReconnectTimers[s] # NoPrinter
                  THEN Append(RemoveAt(@, k), printerReconnectTimers[s])
                  ELSE RemoveAt(@, k)]
        /\ printerReconnectTimers' = [printerReconnectTimers EXCEPT ![s] = NoPrinter]
        /\ IF Opens(s)
             THEN /\ printerDataCache' = [printerDataCache EXCEPT ![s] = cached]
                  /\ clients' = [clients EXCEPT ![s][FreeSlot(s)] =
                                   [st |-> "connecting", printer |-> cached, amsNozzleLock |-> <<>>]]
             ELSE UNCHANGED << printerDataCache, clients >>
  /\ lastEvent' = Event(IF Opens(s) THEN "timer:connect" ELSE "timer:skip", s)
  /\ emitted' = {}
  /\ published' = <<>>
  /\ UNCHANGED << apiConnected, mqttClients, printers, reconnectAttempts, armedDelay,
                  failures, inRoster, cameraVars, go2rtcVars, frameVars, commandVars, logVars, mediaVars >>

\* ------------------------------------------------------------- transcoder
\* go2rtcProcess.on('close') of a process started by startGo2rtc.
Go2rtcClose ==
  /\ go2rtcProcess
  /\ go2rtcProcess' = FALSE
  /\ go2rtcReady' = FALSE
  /\ go2rtcWatchdogTimer' = TRUE
  /\ lastEvent' = Event("go2rtc:close", "")
  /\ emitted' = {}
  /\ published' = <<>>
  /\ UNCHANGED << apiConnected, sessionVars, cameraVars, readyTimers, frameVars, commandVars, logVars, mediaVars >>

\* The 3 s relaunch timer: startGo2rtc spawns a process and arms its 2 s timer.
Go2rtcRelaunch ==
  /\ go2rtcWatchdogTimer
  /\ readyTimers < MaxReadyTimers
  /\ go2rtcWatchdogTimer' = FALSE
  /\ go2rtcProcess' = TRUE
  /\ readyTimers' = readyTimers + 1
  /\ lastEvent' = Event("go2rtc:relaunch", "")
  /\ emitted' = {}
  /\ published' = <<>>
  /\ UNCHANGED << apiConnected, sessionVars, cameraVars, go2rtcReady, frameVars, commandVars, logVars, mediaVars >>

RECURSIVE CountOf(_, _)
CountOf(q, s) ==
  IF q = <<>> THEN 0 ELSE (IF Head(q).serial = s THEN 1 ELSE 0) + CountOf(Tail(q), s)

\* The 2 s timer of startGo2rtc: ready, and every queued stream goes through
\* addCameraStream again (they are all of group 2, and the transcoder is ready).
Go2rtcReadyTimer ==
  /\ readyTimers > 0
  /\ \A s \in Serials : relayStarts[s] + CountOf(pendingStreams, s) <= MaxRelayStarts
  /\ readyTimers' = readyTimers - 1
  /\ go2rtcReady' = TRUE
  /\ cameraStreams' = cameraStreams \cup { pendingStreams[i].serial : i \in DOMAIN pendingStreams }
  /\ relayStarts' = [s \in Serials |-> relayStarts[s] + CountOf(pendingStreams, s)]
  /\ pendingStreams' = <<>>
  /\ lastEvent' = Event("go2rtc:ready", "")
  /\ emitted' = {}
  /\ published' = <<>>
  /\ UNCHANGED << apiConnected, sessionVars, jpegStreams, rtspFrameRelays, go2rtcProcess,
                  go2rtcWatchdogTimer, frameVars, commandVars, logVars, mediaVars >>

\* The delayed startRtspFrameRelay(serial, streamName) after a registration.
RelayStarts(s) ==
  /\ relayStarts[s] > 0
  /\ relayStarts' = [relayStarts EXCEPT ![s] = @ - 1]
  /\ rtspFrameRelays' = [rtspFrameRelays EXCEPT ![s] = TRUE]
  /\ lastEvent' = Event("relay:start", s)
  /\ emitted' = {}
  /\ published' = <<>>
  /\ UNCHANGED << apiConnected, sessionVars, jpegStreams, cameraStreams, pendingStreams,
                  go2rtcVars, frameVars, commandVars, logVars >>

\* The same where the relay's own data is of no interest.
RelayStart(s) == RelayStarts(s) /\ UNCHANGED mediaVars


\* ------------------------------------------------------- telemetry handler
\* A decoded frame: `print` tells whether it has a print section; the other
\* fields are the keys of that section the handler reads (<<>>: key absent).
\* device_extruder is print.device.extruder.info, extruder is print.extruder.info
\* (sequences of optional encoded temperatures), ctc_temp is
\* print.device.ctc.info.temp and info_temp is print.info.temp.  ams_units is
\* print.ams.ams, of which the handler's model keeps the first unit's info, as a
\* number: << <<>> >> is a unit without info, << << 256 >> >> one with info 256.
FrameKeys ==
  { "gcode_state", "mc_percent", "mc_remaining_time", "gcode_file", "layer_num",
    "nozzle_temper", "nozzle_target_temper", "nozzle_temper_2",
    "nozzle_target_temper_2", "bed_temper", "bed_target_temper", "chamber_temper",
    "info_temp", "device_extruder", "extruder", "ctc_temp", "print_error",
    "mc_print_error_code", "hms", "wifi_signal", "ams_units" }

EmptyPrint == [k \in FrameKeys \cup {"print"} |-> IF k = "print" THEN TRUE ELSE <<>>]
NoPrint == [EmptyPrint EXCEPT !["print"] = FALSE]

\* const ctcValue = ctcTemp & 0xFFFF; prev = printers.get(serial) || {};
\* prev.chamberTemp = ctcValue; printers.set(serial, prev)
\* A handler that stores `ctcTemp & 0xFFFF` without the test of line 381, so
\* that a frame without the key stores 0: C14 must tell it from the code's.
CtcStepUnguarded(e, f) ==
  [e EXCEPT !.has = TRUE,
            !.chamberTemp = IF f.ctc_temp # <<>> THEN << f.ctc_temp[1] % Mask16 >> ELSE << 0 >>]
CtcStep(e, f) ==
  IF f.print /\ f.ctc_temp # <<>>
    THEN [e EXCEPT !.has = TRUE, !.chamberTemp = << f.ctc_temp[1] % Mask16 >>]
    ELSE e

\* decodeTemp without the mask of the shifted value: C34 must tell it from the
\* code's.
decodeTempUnmasked(encoded) ==
  IF encoded = <<>> \/ encoded = <<0>> THEN [current |-> 0, target |-> 0]
  ELSE [current |-> encoded[1] % Mask16, target |-> encoded[1] \div Mask16]
\* decodeTemp: current in the low 16 bits, target in the high 16 bits.  The
\* operands of & and >> are 32-bit signed integers: % and \div round down, as
\* the mask and the arithmetic shift do.
decodeTemp(encoded) ==
  IF encoded = <<>> \/ encoded = <<0>> THEN [current |-> 0, target |-> 0]
  ELSE [current |-> encoded[1] % Mask16, target |-> (encoded[1] \div Mask16) % Mask16]

ActiveStates == { <<"RUNNING">>, <<"PAUSE">>, <<"PREPARE">> }
IdleStates == { <<"IDLE">>, <<"FINISH">> }

\* Lines 581-596: the stale-data fix, on prevStatus.
StaleFix(e, f) ==
  IF Opt(f.gcode_state, e.gcodeState) \in IdleStates
    THEN LET noError == f.print_error = <<>> \/ f.print_error = <<0>>
         IN [e EXCEPT !.printError = IF noError THEN <<0>> ELSE @,
                      !.printErrorCode = IF noError THEN <<"">> ELSE @,
                      !.printProgress = <<0>>, !.remainingTime = <<0>>,
                      !.nozzleTargetTemp = <<0>>, !.nozzleTargetTemp2 = <<0>>,
                      !.bedTargetTemp = <<0>>, !.hms = << <<>> >>]
    ELSE e

\* Lines 598-608: the one-time reset of the actual temperatures, on prevStatus.
TransitionFix(e, f) ==
  IF e.gcodeState \in ActiveStates /\ Opt(f.gcode_state, e.gcodeState) \in IdleStates
    THEN [e EXCEPT !.nozzleTemp = <<0>>, !.nozzleTemp2 = <<>>, !.bedTemp = <<0>>,
                   !.chamberTemp = <<0>>]
    ELSE e

Truthy(x) == x # <<>> /\ x # <<"">>

\* (infoVal >> 8) & 0x1
bit8(infoVal) == (infoVal \div 256) % 2

\* client._amsNozzleLock.unit_0 after lines 454-462: the first bit seen stays.
AmsNozzleLockAfter(lock, f) ==
  IF f.print /\ f.ams_units # <<>> /\ f.ams_units[1] # <<>> /\ lock = <<>>
    THEN << bit8(f.ams_units[1][1]) >>
    ELSE lock

\* units[0].nozzle of `ams || prevStatus.ams` (line 697): a rebuilt unit has
\* the locked nozzle if it has an info field and none otherwise; without a
\* unit array the units of the previous status are kept.
AmsUnitNozzle(prev, f, lock) ==
  IF f.ams_units # <<>>
    THEN IF f.ams_units[1] # <<>> THEN lock ELSE <<>>
    ELSE prev.amsNozzle

\* Lines 610-719: the status built from the frame and prevStatus, stored over
\* the entry ({ ...printers.get(serial), ...status }).
StatusMerge(prev, f, lock) ==
  LET isH2Model == includes(toUpperCase(prev.model), <<"H","2">>)
      dev == IF f.device_extruder # <<>> /\ Len(f.device_extruder[1]) >= 1
               THEN f.device_extruder[1] ELSE <<>>
      old == IF dev = <<>> /\ f.extruder # <<>> /\ Len(f.extruder[1]) >= 2
               THEN f.extruder[1] ELSE <<>>
      n1  == IF isH2Model THEN Opt(prev.nozzleTemp, <<0>>)
             ELSE Opt(f.nozzle_temper, Opt(prev.nozzleTemp, <<0>>))
      t1  == IF isH2Model THEN Opt(prev.nozzleTargetTemp, <<0>>)
             ELSE Opt(f.nozzle_target_temper, Opt(prev.nozzleTargetTemp, <<0>>))
      n2  == IF isH2Model THEN prev.nozzleTemp2 ELSE Opt(f.nozzle_temper_2, prev.nozzleTemp2)
      t2  == IF isH2Model THEN prev.nozzleTargetTemp2
             ELSE Opt(f.nozzle_target_temper_2, prev.nozzleTargetTemp2)
      chamberTempValue == Opt(f.chamber_temper, IF isH2Model THEN f.info_temp ELSE <<>>)
  IN [ has |-> TRUE, model |-> prev.model, online |-> TRUE,
       gcodeState |-> Opt(f.gcode_state, Opt(prev.gcodeState, <<"IDLE">>)),
       printProgress |-> Opt(f.mc_percent, Opt(prev.printProgress, <<0>>)),
       remainingTime |-> Opt(f.mc_remaining_time, Opt(prev.remainingTime, <<0>>)),
       currentFile |-> IF Truthy(f.gcode_file) THEN f.gcode_file
                       ELSE IF Truthy(prev.currentFile) THEN prev.currentFile ELSE <<"">>,
       layer |-> Opt(f.layer_num, Opt(prev.layer, <<0>>)),
       nozzleTemp |->
         IF dev # <<>> THEN << decodeTemp(dev[1]).current >>
         ELSE IF old # <<>> THEN << decodeTemp(old[1]).current >> ELSE n1,
       nozzleTargetTemp |->
         IF dev # <<>> THEN << decodeTemp(dev[1]).target >>
         ELSE IF old # <<>> THEN << decodeTemp(old[1]).target >> ELSE t1,
       nozzleTemp2 |->
         IF dev # <<>> /\ Len(dev) >= 2 THEN << decodeTemp(dev[2]).current >>
         ELSE IF old # <<>> THEN << decodeTemp(old[2]).current >> ELSE n2,
       nozzleTargetTemp2 |->
         IF dev # <<>> /\ Len(dev) >= 2 THEN << decodeTemp(dev[2]).target >>
         ELSE IF old # <<>> THEN << decodeTemp(old[2]).target >> ELSE t2,
       bedTemp |-> Opt(f.bed_temper, Opt(prev.bedTemp, <<0>>)),
       bedTargetTemp |-> Opt(f.bed_target_temper, Opt(prev.bedTargetTemp, <<0>>)),
       chamberTemp |-> Opt(chamberTempValue, Opt(prev.chamberTemp, <<0>>)),
       wifiSignal |-> Opt(f.wifi_signal, prev.wifiSignal),
       printError |-> Opt(f.print_error, Opt(prev.printError, <<0>>)),
       printErrorCode |-> Opt(f.mc_print_error_code, Opt(prev.printErrorCode, <<"">>)),
       hms |-> IF f.hms # <<>> THEN f.hms ELSE Opt(prev.hms, << <<>> >>),
       amsNozzle |-> AmsUnitNozzle(prev, f, lock) ]

\* A handler whose `const isH2Model` precedes its first read, so that the merge
\* of lines 581-719 runs: C9 must tell it from the code's.
isH2ModelDeclaredFirst == TRUE
\* Line 518 reads `isH2Model` in the block whose `const isH2Model` is at line
\* 618: the binding is not initialized yet, the read throws a ReferenceError,
\* and the handler's `catch (e) {}` ends the handling of the frame.
isH2ModelInitialized == FALSE

\* The frames whose handling throws (and is ended by the catch of line 738).
Throws(f) == f.print /\ ~isH2ModelInitialized

\* The store entry of the device after client.on('message') handled the frame.
EntryAfterMessage(e, f, lock) ==
  LET e1 == CtcStep(e, f)
  IN IF f.print /\ isH2ModelInitialized
       THEN StatusMerge(TransitionFix(StaleFix(e1, f), f), f, AmsNozzleLockAfter(lock, f))
       ELSE e1

\* The 'printer:status' events of lines 723-736.
StatusEmitted(s, f) ==
  IF f.print /\ isH2ModelInitialized
    THEN { [to |-> i, serialNumber |-> s, online |-> TRUE] :
             i \in {j \in Upstreams : apiConnected[j]} }
    ELSE {}

HandleMessage(s, c, f) ==
  /\ clients[s][c].st = "connected"
  /\ printers' = [printers EXCEPT ![s] = EntryAfterMessage(@, f, clients[s][c].amsNozzleLock)]
  /\ clients' = [clients EXCEPT ![s][c].amsNozzleLock = AmsNozzleLockAfter(@, f)]
  /\ emitted' = StatusEmitted(s, f)
  /\ lastEvent' = Event("message", s)
  /\ published' = <<>>
  /\ UNCHANGED << apiConnected, mqttClients, printerDataCache,
                  printerReconnectTimers, orphanTimers, reconnectAttempts, armedDelay,
                  failures, inRoster, cameraVars, go2rtcVars, commandVars, logVars, mediaVars >>

\* client.on('message') in the session specifications.
ClientMessage(s, c, f) == HandleMessage(s, c, f) /\ UNCHANGED frameVars

\* client.on('message') in the telemetry specification, which keeps the frame,
\* the entry before it and the state the device reported.
FrameStep(s, c, f) ==
  /\ HandleMessage(s, c, f)
  /\ lastFrame' = f
  /\ prevEntry' = printers[s]
  /\ deviceState' =
       [deviceState EXCEPT ![s] =
          [before |-> @.now, now |-> IF f.print THEN Opt(f.gcode_state, @.now) ELSE @.now]]

\* ------------------------------------------------------------------ frames
Frame1(k, v) == [EmptyPrint EXCEPT ![k] = << v >>]
Frame2(g, k, v) == [EmptyPrint EXCEPT !["gcode_state"] = << g >>, ![k] = << v >>]

GcodeStates == { "IDLE", "PREPARE", "RUNNING", "PAUSE", "FINISH", "FAILED" }

\* One value for each key of a print section but gcode_state.  The encoded
\* temperatures are (target << 16) | current; the CTC value has bits above 16.
KeyValue ==
  [ mc_percent |-> 42, mc_remaining_time |-> 17, gcode_file |-> "a.3mf", layer_num |-> 3,
    nozzle_temper |-> 215, nozzle_target_temper |-> 220, nozzle_temper_2 |-> 30,
    nozzle_target_temper_2 |-> 210, bed_temper |-> 60, bed_target_temper |-> 65,
    chamber_temper |-> 35, info_temp |-> 36,
    device_extruder |-> << << 220 * Mask16 + 215 >>, <<>> >>,
    extruder |-> << << 200 * Mask16 + 190 >>, << 0 >> >>,
    ctc_temp |-> Mask16 + 38, print_error |-> 5, mc_print_error_code |-> "E5",
    hms |-> << "HMS_0300" >>, wifi_signal |-> "-50dBm" ]

\* The frames of the telemetry specification: without a print section, with an
\* empty one, with one key, and with gcode_state and one more key.
TelemetryFrames ==
  { NoPrint, EmptyPrint }
    \cup { Frame1("gcode_state", g) : g \in GcodeStates }
    \cup { Frame1(k, KeyValue[k]) : k \in DOMAIN KeyValue }
    \cup { Frame2(g, k, KeyValue[k]) : g \in { "RUNNING", "FINISH" }, k \in DOMAIN KeyValue }

\* The frames of the session specification.
SessionFrames == { Frame1("ctc_temp", KeyValue["ctc_temp"]), Frame1("gcode_state", "RUNNING") }

\* ----------------------------------------------------------- executeCommand
\* A command as executeCommand reads it: its type and the fields the cases
\* use (<<>>: the command does not carry the field).
Cmd(type) ==
  [ type |-> type, on |-> FALSE, temp |-> <<>>, speed |-> <<>>, level |-> <<>>,
    slot |-> <<>>, trayId |-> <<>>, gcode |-> <<>>, calibrationType |-> "",
    axis |-> <<>>, distance |-> <<>>, ledNode |-> <<>> ]
NoCommand == Cmd("")

\* typeof command === 'string' ? { type: command } : command; a command given
\* as a bare string is the record [string |-> it].
CommandOf(command) == IF "string" \in DOMAIN command THEN Cmd(command.string) ELSE command

\* x || d for a number: 0 is falsy, as an absent field is.
OrNumber(x, d) == IF x = <<>> \/ x = << 0 >> THEN d ELSE x[1]

RECURSIVE Log2Floor(_)
Log2Floor(n) == IF n < 2 THEN 0 ELSE 1 + Log2Floor(n \div 2)

\* Math.round(speed * 2.55) in IEEE-754 double arithmetic, for an integer speed.
\* The double nearest 2.55 is c = 2.55 - 0.4 * 2^-51, so speed * c lies
\* 0.4 * speed * 2^-51 below the decimal product 255 * speed / 100.  When the
\* decimal product is not a half (r # 50) it is at least 1/100 away from one
\* and the deficit and the rounding of the product cannot move it across: the
\* result is the nearest integer.  When it is a half n + 1/2 (speed 10, 30,
\* 50, ...), n + 1/2 is a double and the doubles around it are 2^(e-52) apart,
\* e the exponent of n: the product rounds to n + 1/2 (and Math.round gives
\* n + 1) when the deficit is within half that spacing, ties going to the even
\* significand of n + 1/2, that is when 8 * speed <= 5 * 2^e; it rounds to
\* the double below (and Math.round gives n) otherwise.
MathRoundTimes255(speed) ==
  LET n == (255 * speed) \div 100
      r == (255 * speed) % 100
  IN  IF r > 50 THEN n + 1
      ELSE IF r < 50 THEN n
      ELSE IF 8 * speed <= 5 * Pow(2, Log2Floor(n)) THEN n + 1
      ELSE n

\* 'M106 Pn S' + Math.round((cmd.speed || 0) * 2.55)
FanNative(speed) == MathRoundTimes255(speed)

\* The one-payload cases that copy fields of the command into a payload with
\* sequence_id '0' and no user_id: command type |-> payload command.
PlainCommands ==
  [ pause |-> "pause", resume |-> "resume", stop |-> "stop",
    xcamControl |-> "xcam_control_set", printOption |-> "print_option",
    amsDrying |-> "ams_filament_drying", amsUserSetting |-> "ams_user_setting",
    amsControl |-> "ams_control", amsGetRfid |-> "ams_get_rfid",
    ipcamRecord |-> "ipcam_record_set", ipcamTimelapse |-> "ipcam_timelapse",
    setAccessories |-> "set_accessories", getAccessories |-> "get_accessories",
    getAccessCode |-> "get_access_code", skipObjects |-> "skip_objects",
    buzzerCtrl |-> "buzzer_ctrl", setAirduct |-> "set_airduct" ]

Plain(s, command, param) == Payload(s, command, << "0" >>, <<>>, param)
PlainUser(s, command, param) == Payload(s, command, << "0" >>, << "1234567890" >>, param)
GcodeLine(s, param) == Payload(s, "gcode_line", << "2006" >>, << "1234567890" >>, param)
ledMode(cmd) == IF cmd.on THEN "on" ELSE "off"

\* A jog that never returns to absolute positioning: C18 must tell it from the
\* code's.
MovePayloadsNoRestore(s, cmd) ==
  << GcodeLine(s, << "G91" >>),
     GcodeLine(s, << "G0", IF cmd.axis = <<>> THEN "X" ELSE cmd.axis[1],
                     OrNumber(cmd.distance, 10), "F3000" >>) >>
\* case 'move': two publishes inside the case and the third by the final
\* publish of the function.
MovePayloads(s, cmd) ==
  << GcodeLine(s, << "G91" >>),
     GcodeLine(s, << "G0", IF cmd.axis = <<>> THEN "X" ELSE cmd.axis[1],
                     OrNumber(cmd.distance, 10), "F3000" >>),
     GcodeLine(s, << "G90" >>) >>

\* printers.get(serialNumber)?.model?.toUpperCase() || ''
modelUpper(s) == toUpperCase(printers[s].model)
isH2Series(s) ==
  \/ includes(modelUpper(s), << "H", "2", "D" >>)
  \/ includes(modelUpper(s), << "H", "2", "S" >>)
  \/ includes(modelUpper(s), << "H", "2", "C" >>)

\* A work light that drives one channel whatever the model: C21 must tell it
\* from the code's.
WorkLightPayloadsSingle(s, cmd) == << Plain(s, "ledctrl", << "work_light", ledMode(cmd) >>) >>
\* case 'workLight': chamber_light and work_light for a model naming A1,
\* chamber_light2 for the H2 series, work_light for every other model.
WorkLightPayloads(s, cmd) ==
  IF includes(modelUpper(s), << "A", "1" >>)
    THEN << Plain(s, "ledctrl", << "chamber_light", ledMode(cmd) >>),
            Plain(s, "ledctrl", << "work_light", ledMode(cmd) >>) >>
  ELSE IF isH2Series(s)
    THEN << PlainUser(s, "ledctrl", << "chamber_light2", ledMode(cmd) >>) >>
  ELSE << Plain(s, "ledctrl", << "work_light", ledMode(cmd) >>) >>

\* The payloads executeCommand publishes for cmd on the registered client, in
\* order; none for a type no case names and for a calibration that is neither.
CommandPayloads(s, cmd) ==
  CASE cmd.type \in DOMAIN PlainCommands -> << Plain(s, PlainCommands[cmd.type], <<>>) >>
    [] cmd.type \in { "chamberLight", "light" } ->
         IF isH2Series(s)
           THEN << PlainUser(s, "ledctrl", << "chamber_light", ledMode(cmd) >>),
                   PlainUser(s, "ledctrl", << "chamber_light2", ledMode(cmd) >>) >>
           ELSE << PlainUser(s, "ledctrl", << "chamber_light", ledMode(cmd) >>) >>
    [] cmd.type = "workLight" -> WorkLightPayloads(s, cmd)
    [] cmd.type = "nozzleTemp" -> << GcodeLine(s, << "M104 S", cmd.temp >>) >>
    [] cmd.type = "nozzle2Temp" -> << GcodeLine(s, << "M104 T1 S", cmd.temp >>) >>
    [] cmd.type = "bedTemp" -> << GcodeLine(s, << "M140 S", cmd.temp >>) >>
    [] cmd.type = "partFan" ->
         << GcodeLine(s, << "M106 P1 S", FanNative(OrNumber(cmd.speed, 0)) >>) >>
    [] cmd.type = "auxFan" ->
         << GcodeLine(s, << "M106 P2 S", FanNative(OrNumber(cmd.speed, 0)) >>) >>
    [] cmd.type = "chamberFan" ->
         << GcodeLine(s, << "M106 P3 S", FanNative(OrNumber(cmd.speed, 0)) >>) >>
    [] cmd.type = "speedLevel" -> << Plain(s, "print_speed", cmd.level) >>
    [] cmd.type \in { "amsUnload", "unloadFilament" } ->
         << Plain(s, "ams_change_filament", << 255 >>) >>
    [] cmd.type \in { "amsLoad", "loadFilament" } ->
         << Plain(s, "ams_change_filament", Opt(cmd.slot, Opt(cmd.trayId, << 0 >>))) >>
    [] cmd.type = "gcode" -> << GcodeLine(s, cmd.gcode) >>
    [] cmd.type = "home" -> << GcodeLine(s, << "G28" >>) >>
    [] cmd.type = "calibration" ->
         IF cmd.calibrationType = "home" THEN << GcodeLine(s, << "G28" >>) >>
         ELSE IF cmd.calibrationType = "bed_level" THEN << GcodeLine(s, << "G29" >>) >>
         ELSE <<>>
    [] cmd.type = "move" -> MovePayloads(s, cmd)
    [] cmd.type = "heatbedLight" ->
         << PlainUser(s, "ledctrl", << "heatbed_light", ledMode(cmd) >>) >>
    [] cmd.type = "ledFlashing" -> << PlainUser(s, "ledctrl", << cmd.ledNode, "flashing" >>) >>
    [] cmd.type = "amsFilamentSetting" -> << Plain(s, "ams_filament_setting", <<>>) >>
    [] OTHER -> <<>>

\* A dispatcher that publishes without a registered client: C17 must tell it
\* from the code's.
HasClientAlways(s) == TRUE
\* const client = mqttClients.get(serialNumber); if (!client) return
HasClient(s) == mqttClients[s] # 0

\* executeCommand(serialNumber, command), called by 'printer:command' of either
\* upstream and by the 'send-command' IPC call.  sent: the publish of an
\* amsFilamentSetting payload reported success, which arms the 2 s pushall
\* timer.
ExecuteCommand(s, command, sent) ==
  LET cmd == CommandOf(command)
      arms == HasClient(s) /\ cmd.type = "amsFilamentSetting" /\ sent
  IN  /\ arms => pushallTimers[s] < MaxPushall
      /\ published' = IF HasClient(s) THEN CommandPayloads(s, cmd) ELSE <<>>
      /\ pushallTimers' = [pushallTimers EXCEPT ![s] = IF arms THEN @ + 1 ELSE @]
      /\ lastCommand' = cmd
      /\ lastEvent' = Event("command", s)
      /\ emitted' = {}
      /\ UNCHANGED << apiConnected, sessionVars, cameraVars, go2rtcVars, frameVars,
                      logVars, mediaVars >>

\* What the 2 s timer of amsFilamentSetting publishes: no sequence_id.
DelayedPushall(s) == Payload(s, "pushall", <<>>, <<>>, <<>>)

\* The 2 s timer of amsFilamentSetting.  It publishes on the client of its
\* closure, which sends the payload while it is connected; the client may have
\* closed, or another client of the device may be the connected one, and then
\* nothing is sent.
PushallTimer(s, sent) ==
  /\ pushallTimers[s] > 0
  /\ sent => \E c \in ClientIds : clients[s][c].st = "connected"
  /\ pushallTimers' = [pushallTimers EXCEPT ![s] = @ - 1]
  /\ published' = IF sent THEN << DelayedPushall(s) >> ELSE <<>>
  /\ lastEvent' = Event("pushall", s)
  /\ emitted' = {}
  /\ UNCHANGED << apiConnected, sessionVars, cameraVars, go2rtcVars, frameVars, lastCommand,
                  logVars, mediaVars >>

\* The destinations of a log line: the window, and the upstreams sendLog emits
\* 'bridge:log' to.
Window == 0
LogUpstreams == { i \in {1} : apiConnected[i] }

\* sendLog(msg) at time t
sendLog(msg, t) ==
  { [to |-> i, event |-> IF i = Window THEN "log" ELSE "bridge:log", msg |-> msg, ts |-> t] :
      i \in {Window} \cup LogUpstreams }

\* now - lastLog > 60000, with lastLog = mqttErrorThrottle.get(serial) || 0:
\* Date.now() is the time since 1970, so that without an entry the test is true.
ErrorLogDue(lastLog, t) == lastLog = <<>> \/ t - lastLog[1] > ErrorLogThrottleMs

\* client.on('error'): a throttled log line.
ClientError(s, c) ==
  /\ clients[s][c].st # "none"
  /\ IF ErrorLogDue(mqttErrorThrottle[s], now)
       THEN /\ emitted' = sendLog(<< "Fehler", s >>, now)
            /\ mqttErrorThrottle' = [mqttErrorThrottle EXCEPT ![s] = << now >>]
            /\ errorLogged' = [errorLogged EXCEPT ![s] = << now >>]
            /\ UNCHANGED << armedAt, decodeVars >>
       ELSE /\ emitted' = {}
            /\ UNCHANGED logVars
  /\ lastEvent' = Event("error", s)
  /\ published' = <<>>
  /\ UNCHANGED << apiConnected, sessionVars, cameraVars, go2rtcVars, frameVars, commandVars, mediaVars >>

\* The commands of the command specification: every type once, the light
\* commands both ways, the part fan with every speed of its range, the other
\* fans (the same expression) with its ends and its middle, each fan with none,
\* jogs with and without axis and distance, the calibrations, and a type no
\* case names.
FanSpeeds == 0..FanInputMax
LightTypes == { "chamberLight", "light", "workLight", "heatbedLight" }
FanTypes == { "partFan", "auxFan", "chamberFan" }
OtherTypes ==
  DOMAIN PlainCommands
    \cup { "speedLevel", "amsUnload", "unloadFilament", "amsLoad", "loadFilament", "gcode",
           "home", "ledFlashing", "amsFilamentSetting", "nozzleTemp", "nozzle2Temp",
           "bedTemp", "selfDestruct" }
Commands ==
  { [Cmd(t) EXCEPT !.temp = << 220 >>, !.level = << 2 >>, !.gcode = << "M400" >>,
                   !.ledNode = << "chamber_light" >>] : t \in OtherTypes }
    \cup { [Cmd(t) EXCEPT !.on = on] : t \in LightTypes, on \in BOOLEAN }
    \cup { [Cmd("partFan") EXCEPT !.speed = << v >>] : v \in FanSpeeds }
    \cup { [Cmd(t) EXCEPT !.speed = << v >>] :
             t \in { "auxFan", "chamberFan" }, v \in { 0, FanInputMax \div 2, FanInputMax } }
    \cup { Cmd(t) : t \in FanTypes }
    \cup { [Cmd("move") EXCEPT !.axis = a, !.distance = d] :
             a \in { <<>>, << "Z" >> }, d \in { <<>>, << 0 >>, << -5 >> } }
    \cup { [Cmd("calibration") EXCEPT !.calibrationType = k] :
             k \in { "home", "bed_level", "vibration" } }
\* Commands given as a bare string.
StringCommands == { [string |-> t] : t \in { "resume", "selfDestruct" } }

\* --------------------------------------------------------- frame extraction
JPEG_START == << "FF", "D8" >>
JPEG_END == << "FF", "D9" >>

\* buf.indexOf(pat, from): the least offset (from 0) at or after `from` where
\* pat occurs in buf, -1 when there is none.
indexOf(buf, pat, from) ==
  LET hits == { i \in from..(Len(buf) - Len(pat)) : SubSeq(buf, i + 1, i + Len(pat)) = pat }
  IN  IF hits = {} THEN -1 ELSE CHOOSE i \in hits : \A j \in hits : i <= j

\* buf.slice(from)
slice(buf, from) == SubSeq(buf, from + 1, Len(buf))

\* if (jpegData.length > 100)
ValidFrame(jpegData) == Len(jpegData) > MinJpegLength

\* The loop of processJpegBuffer and of processRtspFrameBuffer, which are the
\* same up to the names: the buffer it leaves and the frames of valid length it
\* extracts, in order, after the frames of `out`.
RECURSIVE processBuffer(_, _)
processBuffer(buf, out) ==
  LET startIdx == indexOf(buf, JPEG_START, 0)
  IN  IF startIdx = -1 THEN [buffer |-> <<>>, frames |-> out]
      ELSE LET cut == IF startIdx > 0 THEN slice(buf, startIdx) ELSE buf
               endIdx == indexOf(cut, JPEG_END, 2)
           IN  IF endIdx = -1 THEN [buffer |-> cut, frames |-> out]
               ELSE LET jpegData == SubSeq(cut, 1, endIdx + 2)
                    IN  processBuffer(slice(cut, endIdx + 2),
                                      IF ValidFrame(jpegData) THEN Append(out, jpegData)
                                      ELSE out)

\* socket.on('data') / res.on('data'): the chunk is appended to the buffer and
\* the buffer is processed.
DataChunk ==
  /\ chunks # <<>>
  /\ LET r == processBuffer(buffer \o Head(chunks), <<>>)
     IN  /\ buffer' = r.buffer
         /\ produced' = produced \o r.frames
  /\ chunks' = Tail(chunks)
  /\ lastEvent' = Event("data", "")
  /\ emitted' = {}
  /\ published' = <<>>
  /\ UNCHANGED << apiConnected, sessionVars, cameraVars, go2rtcVars, frameVars, commandVars, logVars,
                  streamIn, streamVars, superVars >>

\* No camera bytes under way.
NoStream == [pre |-> <<>>, body |-> <<>>, post |-> <<>>]
ExtractIdle ==
  /\ buffer = <<>>
  /\ chunks = <<>>
  /\ produced = <<>>
  /\ streamIn = NoStream

\* ------------------------------------------------------- camera sessions
\* The entry startJpegStream puts into jpegStreams (connectJpegStream sets
\* socket, connectTime and receivedData at once), the one processRtspFrameBuffer
\* puts there for a relay device, and none.  socket: streamData.socket is not
\* null; live: the sockets that are open; closing: the sockets destroyed whose
\* 'close' event is still to come; timers: the pending reconnect timers;
\* nextCheck: when the 30 s interval of the watchdog fires next.
NoStreamData ==
  [ socket |-> FALSE, lastFrame |-> <<>>, lastFrameTime |-> 0, lastSendTime |-> 0,
    clients |-> 0, receivedData |-> FALSE, connectTime |-> 0, buffer |-> <<>>,
    watchdogTimer |-> FALSE, nextCheck |-> 0, live |-> 0, closing |-> 0, timers |-> {},
    reconnectAttempts |-> 0 ]
\* connectJpegStream(serial, accessCode, ip, streamData) at the time t
connectJpegStream(sd, t) ==
  [sd EXCEPT !.connectTime = t, !.receivedData = FALSE, !.socket = TRUE, !.live = @ + 1]
StartedStreamData(t) ==
  connectJpegStream([NoStreamData EXCEPT !.watchdogTimer = TRUE,
                                         !.nextCheck = t + WatchdogIntervalMs], t)

\* The entry startRtspFrameRelay puts into rtspFrameRelays (connectRtspRelay
\* sends the request at once), and none.  request is "pending" until the
\* response or the error, "open" while a response with status 200 is being
\* read, "none" otherwise; retryTimers counts the pending timers that will call
\* connectRtspRelay.
\* request: the state of the last request made; connectTime: when it was made
\* (history); retryTimers: the due times of the pending retry timers; retries:
\* the retries since the relay started (history); nextCheck: when the 30 s
\* interval of the watchdog fires next.
NoRelayData ==
  [ active |-> FALSE, request |-> "none", buffer |-> <<>>, lastFrameTime |-> 0,
    lastSendTime |-> 0, reconnectAttempts |-> 0, watchdogRetries |-> 0, retryTimers |-> {},
    nextCheck |-> 0, connectTime |-> 0, retries |-> 0 ]
\* connectRtspRelay(serial, streamName, relayData) at the time t
connectRtspRelay(rd, t) == [rd EXCEPT !.request = "pending", !.connectTime = t]
StartedRelayData(t) ==
  connectRtspRelay([NoRelayData EXCEPT !.active = TRUE,
                                       !.nextCheck = t + WatchdogIntervalMs], t)

\* The transcoder's processes: launcher tells which function spawned it and
\* listening whether its 'close' listener is attached.
ProcIds == 1..MaxSpawns
\* exiting: the process has ended and its 'close' event is still to come.
\* streams: the streams of the configuration file it was started with.
NoProcess ==
  [alive |-> FALSE, launcher |-> "none", listening |-> FALSE, exiting |-> FALSE, streams |-> {}]
SpawnedWith(by, streams) ==
  [alive |-> TRUE, launcher |-> by, listening |-> TRUE, exiting |-> FALSE, streams |-> streams]
\* startGo2rtc writes a configuration with 'streams: {}' and spawns with it.
Spawned(by) == SpawnedWith(by, {})
\* process.kill(): the process ends at once
Killed(pr) == IF pr.alive THEN [pr EXCEPT !.alive = FALSE, !.exiting = TRUE] ELSE pr
NextProc == 1 + Cardinality({ i \in ProcIds : processes[i].launcher # "none" })

\* After start-up startGo2rtc has spawned the first process.
SupervisorStarted ==
  /\ processes = [i \in ProcIds |-> IF i = 1 THEN Spawned("startGo2rtc") ELSE NoProcess]
  /\ handle = 1
  /\ isQuitting = FALSE
  /\ relaunchTimer = <<>>
  /\ go2rtcRestartTimer = <<>>
  /\ configStarts = {}
  /\ relayRestarts = {}
  /\ requests = 0
  /\ regenerations = <<>>

StreamsIdle ==
  /\ now = StartTime
  /\ streamData = [s \in Serials |-> NoStreamData]
  /\ relayData = [s \in Serials |-> NoRelayData]
  /\ forwarded = [s \in Serials |-> <<>>]
  /\ extracted = <<>>
  /\ written = <<>>

\* No transport error was logged yet.
LogIdle ==
  /\ mqttErrorThrottle = [s \in Serials |-> <<>>]
  /\ errorLogged = [s \in Serials |-> <<>>]
  /\ armedAt = [s \in Serials |-> 0]

\* Nothing to decode.
DecodeIdle == encodedTemp = <<>> /\ decodedTemp = <<>>

MediaIdle == ExtractIdle /\ StreamsIdle /\ SupervisorStarted /\ LogIdle /\ DecodeIdle

\* Time passes.
Tick(d, horizon) ==
  /\ now + d <= StartTime + horizon
  /\ now' = now + d
  /\ lastEvent' = Event("tick", "")
  /\ emitted' = {}
  /\ published' = <<>>
  /\ written' = <<>>
  /\ extracted' = <<>>
  /\ UNCHANGED << apiConnected, sessionVars, cameraVars, go2rtcVars, frameVars, commandVars, logVars,
                  extractVars, streamData, relayData, forwarded, superVars >>

\* GET /stream/:serial: 404 without an entry; else the response joins the
\* subscribers and gets the last frame, if there is one.
Subscribe(s) ==
  /\ jpegStreams[s]
  /\ streamData[s].clients < MaxSubscribers
  /\ streamData' = [streamData EXCEPT ![s].clients = @ + 1]
  /\ written' = IF streamData[s].lastFrame # <<>>
                  THEN << [client |-> streamData[s].clients + 1,
                           frame |-> streamData[s].lastFrame[1]] >>
                  ELSE <<>>
  /\ extracted' = <<>>
  /\ lastEvent' = Event("subscribe", s)
  /\ emitted' = {}
  /\ published' = <<>>
  /\ UNCHANGED << apiConnected, sessionVars, cameraVars, go2rtcVars, frameVars, commandVars, logVars,
                  extractVars, now, relayData, forwarded, superVars >>

\* streamData.clients.forEach(client => sendJpegFrame(client, jpegData))
WritesOf(n, jpegData) == [c \in 1..n |-> [client |-> c, frame |-> jpegData]]

\* A Direct capture that forwards every frame: C24 must tell it from the
\* code's.
JpegForwardsAlways(sd, t) == TRUE
\* apiSocket?.connected && now - (streamData.lastSendTime || 0) >= 200
JpegForwards(sd, t) == apiConnected[1] /\ t - sd.lastSendTime >= ThrottleMs

\* The body of the loop of processJpegBuffer for the valid frames of one call,
\* in order: st holds the entry, the frames forwarded and the frames written.
RECURSIVE jpegFrames(_, _, _)
jpegFrames(s, frames, st) ==
  IF frames = <<>> THEN st
  ELSE LET jpegData == Head(frames)
           fwd == JpegForwards(st.sd, now)
       IN  jpegFrames(s, Tail(frames),
             [ sd |-> [st.sd EXCEPT !.lastFrame = << jpegData >>, !.lastFrameTime = now,
                                    !.lastSendTime = IF fwd THEN now ELSE @],
               sent |-> IF fwd THEN Append(st.sent, [frame |-> jpegData, ts |-> now])
                        ELSE st.sent,
               wrote |-> st.wrote \o WritesOf(st.sd.clients, jpegData) ])

\* socket.on('data') of a Direct session.
JpegData(s, chunk) ==
  /\ jpegStreams[s]
  /\ streamData[s].live > 0
  /\ LET r == processBuffer(streamData[s].buffer \o chunk, <<>>)
         st == jpegFrames(s, r.frames,
                 [ sd |-> [streamData[s] EXCEPT !.receivedData = TRUE, !.buffer = r.buffer],
                   sent |-> <<>>, wrote |-> <<>> ])
     IN  /\ Len(forwarded[s]) + Len(st.sent) <= MaxForwarded
         /\ streamData' = [streamData EXCEPT ![s] = st.sd]
         /\ forwarded' = [forwarded EXCEPT ![s] = @ \o st.sent]
         /\ written' = st.wrote
         /\ extracted' = r.frames
  /\ lastEvent' = Event("jpeg:data", s)
  /\ emitted' = {}
  /\ published' = <<>>
  /\ UNCHANGED << apiConnected, sessionVars, cameraVars, go2rtcVars, frameVars, commandVars, logVars,
                  extractVars, now, relayData, superVars >>

\* startRtspFrameRelay(serial, streamName), called by the timer of a
\* registration: it returns when the device has a relay, and else creates the
\* entry and requests the transcoder's motion-JPEG output.
StartRtspFrameRelay(s) ==
  /\ RelayStarts(s)
  /\ relayData' = [relayData EXCEPT ![s] = IF rtspFrameRelays[s] THEN @ ELSE StartedRelayData(now)]
  /\ written' = <<>>
  /\ extracted' = <<>>
  /\ UNCHANGED << extractVars, now, streamData, forwarded, superVars >>

\* The response of the transcoder with status 200.
RelayResponseOk(s) ==
  /\ relayData[s].active
  /\ relayData[s].request = "pending"
  /\ relayData' = [relayData EXCEPT ![s].request = "open", ![s].reconnectAttempts = 0,
                                     ![s].retries = 0]
  /\ written' = <<>>
  /\ extracted' = <<>>
  /\ lastEvent' = Event("relay:response", s)
  /\ emitted' = {}
  /\ published' = <<>>
  /\ UNCHANGED << apiConnected, sessionVars, cameraVars, go2rtcVars, frameVars, commandVars, logVars,
                  extractVars, now, streamData, forwarded, superVars >>

\* if (now - relayData.lastSendTime < 200) continue
RelaySkips(rd, t) == t - rd.lastSendTime < ThrottleMs

\* The body of the loop of processRtspFrameBuffer for the valid frames of one
\* call: a frame inside the throttle window is skipped before it is stored,
\* written or forwarded; the first frame kept creates the entry of jpegStreams
\* when there is none.
RECURSIVE rtspFrames(_, _, _)
rtspFrames(s, frames, st) ==
  IF frames = <<>> THEN st
  ELSE LET jpegData == Head(frames)
           rd == [st.rd EXCEPT !.lastFrameTime = now]
       IN  IF RelaySkips(rd, now)
             THEN rtspFrames(s, Tail(frames), [st EXCEPT !.rd = rd])
             ELSE rtspFrames(s, Tail(frames),
                    [ rd |-> [rd EXCEPT !.lastSendTime = now],
                      has |-> TRUE,
                      sd |-> [(IF st.has THEN st.sd ELSE NoStreamData)
                                EXCEPT !.lastFrame = << jpegData >>, !.lastFrameTime = now],
                      sent |-> IF apiConnected[1]
                                 THEN Append(st.sent, [frame |-> jpegData, ts |-> now])
                                 ELSE st.sent,
                      wrote |-> st.wrote \o
                                  WritesOf(IF st.has THEN st.sd.clients ELSE 0, jpegData) ])

\* res.on('data') of a Relay session.
RelayData(s, chunk) ==
  /\ rtspFrameRelays[s]
  /\ relayData[s].request = "open"
  /\ LET r == processBuffer(relayData[s].buffer \o chunk, <<>>)
         st == rtspFrames(s, r.frames,
                 [ rd |-> [relayData[s] EXCEPT !.buffer = r.buffer],
                   has |-> jpegStreams[s], sd |-> streamData[s],
                   sent |-> <<>>, wrote |-> <<>> ])
     IN  /\ Len(forwarded[s]) + Len(st.sent) <= MaxForwarded
         /\ relayData' = [relayData EXCEPT ![s] = st.rd]
         /\ jpegStreams' = [jpegStreams EXCEPT ![s] = st.has]
         /\ streamData' = [streamData EXCEPT ![s] = st.sd]
         /\ forwarded' = [forwarded EXCEPT ![s] = @ \o st.sent]
         /\ written' = st.wrote
         /\ extracted' = r.frames
  /\ lastEvent' = Event("relay:data", s)
  /\ emitted' = {}
  /\ published' = <<>>
  /\ UNCHANGED << apiConnected, sessionVars, rtspFrameRelays, cameraStreams, pendingStreams,
                  relayStarts, go2rtcVars, frameVars, commandVars, logVars, extractVars, now, superVars >>

\* ------------------------------------------------ watchdogs and retries
\* The timers that are pending, each as the time at which it is due.
CheckDues ==
  { streamData[s].nextCheck : s \in { r \in Serials : jpegStreams[r] /\ streamData[r].watchdogTimer } }
    \cup { relayData[s].nextCheck : s \in { r \in Serials : relayData[r].active } }
RetryDues ==
  UNION { streamData[s].timers : s \in Serials } \cup UNION { relayData[s].retryTimers : s \in Serials }
SupervisorDues ==
  { relaunchTimer[i] : i \in DOMAIN relaunchTimer }
    \cup { go2rtcRestartTimer[i].due : i \in DOMAIN go2rtcRestartTimer }
    \cup configStarts \cup { tm.due : tm \in relayRestarts }
Dues == CheckDues \cup RetryDues \cup SupervisorDues
Earliest(S) == CHOOSE t \in S : \A u \in S : t <= u

\* Time passes, to the next pending timer or by d when none is due sooner; the
\* runtime runs the timers in the order of their due times.
Advance(d, horizon) ==
  /\ \A t \in Dues : t > now
  /\ now' = Earliest(Dues \cup { now + d })
  /\ now' <= StartTime + horizon
  /\ lastEvent' = Event("tick", "")
  /\ emitted' = {}
  /\ published' = <<>>
  /\ written' = <<>>
  /\ extracted' = <<>>
  /\ UNCHANGED << apiConnected, sessionVars, cameraVars, go2rtcVars, frameVars, commandVars, logVars,
                  extractVars, streamData, relayData, forwarded, superVars >>

\* Math.min(5000 * Math.pow(1.5, n), 30000), as setTimeout takes it (whole ms)
StreamDelay(n) ==
  IF n >= 5 THEN StreamDelayCapMs
  ELSE (StreamDelayBaseMs * Pow(3, n)) \div Pow(2, n)

\* The two conditions under which the interval callback of startJpegStream
\* reconnects.
JpegStalled(sd, t) ==
  \/ sd.lastFrameTime > 0 /\ t - sd.lastFrameTime > SilenceLimitMs /\ sd.socket
  \/ /\ ~(sd.lastFrameTime > 0 /\ t - sd.lastFrameTime > SilenceLimitMs /\ sd.socket)
     /\ sd.lastFrameTime = 0 /\ sd.socket /\ sd.receivedData = FALSE
     /\ t - sd.connectTime > NoDataLimitMs

\* The interval callback of startJpegStream.
JpegWatchdog(s) ==
  /\ jpegStreams[s]
  /\ streamData[s].watchdogTimer
  /\ streamData[s].nextCheck <= now
  /\ LET sd == [streamData[s] EXCEPT !.nextCheck = @ + WatchdogIntervalMs]
     IN  IF JpegStalled(sd, now)
           THEN /\ sd.closing < MaxSockets
                /\ streamData' = [streamData EXCEPT ![s] =
                     connectJpegStream([sd EXCEPT !.live = @ - 1, !.closing = @ + 1,
                                                  !.socket = FALSE, !.buffer = <<>>,
                                                  !.receivedData = FALSE,
                                                  !.reconnectAttempts = 0], now)]
           ELSE streamData' = [streamData EXCEPT ![s] = sd]
  /\ written' = <<>>
  /\ extracted' = <<>>
  /\ lastEvent' = Event("jpeg:watchdog", s)
  /\ emitted' = {}
  /\ published' = <<>>
  /\ UNCHANGED << apiConnected, sessionVars, cameraVars, go2rtcVars, frameVars, commandVars, logVars,
                  extractVars, now, relayData, forwarded, superVars >>

\* socket.on('close'), of an open socket (live) or of one the watchdog
\* destroyed: the handler clears streamData.socket whichever socket closed.
JpegSocketClose(s, live, cap) ==
  /\ IF live THEN streamData[s].live > 0 ELSE streamData[s].closing > 0
  /\ jpegStreams[s] => streamData[s].reconnectAttempts < cap
  /\ LET sd == [streamData[s] EXCEPT !.socket = FALSE,
                                     !.live = IF live THEN @ - 1 ELSE @,
                                     !.closing = IF live THEN @ ELSE @ - 1]
     IN  streamData' = [streamData EXCEPT ![s] =
           IF jpegStreams[s]
             THEN [sd EXCEPT !.reconnectAttempts = @ + 1,
                             !.timers = @ \cup { now + StreamDelay(Min(sd.reconnectAttempts, 6)) }]
             ELSE sd]
  /\ written' = <<>>
  /\ extracted' = <<>>
  /\ lastEvent' = Event("jpeg:close", s)
  /\ emitted' = {}
  /\ published' = <<>>
  /\ UNCHANGED << apiConnected, sessionVars, cameraVars, go2rtcVars, frameVars, commandVars, logVars,
                  extractVars, now, relayData, forwarded, superVars >>

\* The reconnect timer of the close handler.
JpegReconnectTimer(s, due) ==
  /\ due \in streamData[s].timers
  /\ due <= now
  /\ jpegStreams[s] => streamData[s].live + streamData[s].closing < MaxSockets
  /\ LET sd == [streamData[s] EXCEPT !.timers = @ \ { due }]
     IN  streamData' = [streamData EXCEPT ![s] =
           IF jpegStreams[s] THEN connectJpegStream(sd, now) ELSE sd]
  /\ written' = <<>>
  /\ extracted' = <<>>
  /\ lastEvent' = Event("jpeg:reconnect", s)
  /\ emitted' = {}
  /\ published' = <<>>
  /\ UNCHANGED << apiConnected, sessionVars, cameraVars, go2rtcVars, frameVars, commandVars, logVars,
                  extractVars, now, relayData, forwarded, superVars >>

\* if (go2rtcRestartTimer) clearTimeout(go2rtcRestartTimer);
\* go2rtcRestartTimer = setTimeout(() => restartGo2rtcWithAllStreams(), delay)
\* `then` holds the device whose relay the callback starts 5 s after the
\* regeneration, if it does.
RequestRegenerationThen(delay, then) ==
  /\ requests < MaxRequests
  /\ go2rtcRestartTimer' = << [due |-> now + delay, then |-> then] >>
  /\ requests' = requests + 1
RequestRegeneration(delay) == RequestRegenerationThen(delay, <<>>)

\* reconnectRtspRelay(serial, streamName)
reconnectRtspRelay(rd, t) ==
  connectRtspRelay([rd EXCEPT !.buffer = <<>>, !.reconnectAttempts = 0], t)

\* The interval callback of startRtspFrameRelay.
RelayWatchdog(s) ==
  /\ relayData[s].active
  /\ relayData[s].nextCheck <= now
  /\ LET rd == [relayData[s] EXCEPT !.nextCheck = @ + WatchdogIntervalMs]
     IN  IF rd.lastFrameTime > 0 /\ now - rd.lastFrameTime > SilenceLimitMs
           THEN IF rd.watchdogRetries + 1 >= WatchdogRetriesLimit
                  THEN /\ relayData' = [relayData EXCEPT ![s] = [rd EXCEPT !.watchdogRetries = 0]]
                       /\ RequestRegeneration(RestartDelayMs)
                  ELSE /\ relayData' = [relayData EXCEPT ![s] =
                            reconnectRtspRelay([rd EXCEPT !.watchdogRetries = @ + 1], now)]
                       /\ UNCHANGED << go2rtcRestartTimer, requests >>
           ELSE /\ relayData' = [relayData EXCEPT ![s] = rd]
                /\ UNCHANGED << go2rtcRestartTimer, requests >>
  /\ written' = <<>>
  /\ extracted' = <<>>
  /\ lastEvent' = Event("relay:watchdog", s)
  /\ emitted' = {}
  /\ published' = <<>>
  /\ UNCHANGED << apiConnected, sessionVars, cameraVars, go2rtcVars, frameVars, commandVars, logVars,
                  extractVars, now, streamData, forwarded, processes, handle, isQuitting,
                  relaunchTimer, configStarts, relayRestarts, regenerations >>

\* What the three failures of a pull do when the relay is active: the status
\* and the end handlers count the attempt and then either ask for a
\* regeneration, at the limit, or arm a retry; the error handler arms a retry
\* and counts the attempt, whatever the count.
RelayFailure(s, kind) ==
  LET rd == [relayData[s] EXCEPT !.request = "none"]
      n == rd.reconnectAttempts
  IN  IF ~rd.active
        THEN /\ relayData' = [relayData EXCEPT ![s] = rd]
             /\ UNCHANGED << go2rtcRestartTimer, requests >>
      ELSE IF kind = "error"
        THEN /\ relayData' = [relayData EXCEPT ![s] =
                  [rd EXCEPT !.reconnectAttempts = n + 1, !.retries = @ + 1,
                             !.retryTimers = @ \cup { now + StreamDelay(n) }]]
             /\ UNCHANGED << go2rtcRestartTimer, requests >>
      ELSE IF n + 1 >= RelayAttemptsLimit
        THEN /\ relayData' = [relayData EXCEPT ![s] = [rd EXCEPT !.reconnectAttempts = 0]]
             /\ RequestRegeneration(RestartDelayMs)
        ELSE /\ relayData' = [relayData EXCEPT ![s] =
                  [rd EXCEPT !.reconnectAttempts = n + 1, !.retries = @ + 1,
                             !.retryTimers = @ \cup { now + StreamDelay(n + 1) }]]
             /\ UNCHANGED << go2rtcRestartTimer, requests >>

\* The outcome of a pull other than a response with status 200: a response
\* with another status ("status") or req.on('error') ("error") of a pending
\* request, res.on('end') ("end") of an open one.
RelayFails(s, kind) ==
  /\ rtspFrameRelays[s]
  /\ relayData[s].request = (IF kind = "end" THEN "open" ELSE "pending")
  /\ relayData[s].retries < MaxRetries
  /\ RelayFailure(s, kind)
  /\ written' = <<>>
  /\ extracted' = <<>>
  /\ lastEvent' = Event("relay:" \o kind, s)
  /\ emitted' = {}
  /\ published' = <<>>
  /\ UNCHANGED << apiConnected, sessionVars, cameraVars, go2rtcVars, frameVars, commandVars, logVars,
                  extractVars, now, streamData, forwarded, processes, handle, isQuitting,
                  relaunchTimer, configStarts, relayRestarts, regenerations >>

\* The retry timer of connectRtspRelay: if (relayData.active) connectRtspRelay(...)
RelayRetryTimer(s, due) ==
  /\ due \in relayData[s].retryTimers
  /\ due <= now
  /\ LET rd == [relayData[s] EXCEPT !.retryTimers = @ \ { due }]
     IN  relayData' = [relayData EXCEPT ![s] =
           IF rd.active THEN connectRtspRelay(rd, now) ELSE rd]
  /\ written' = <<>>
  /\ extracted' = <<>>
  /\ lastEvent' = Event("relay:retry", s)
  /\ emitted' = {}
  /\ published' = <<>>
  /\ UNCHANGED << apiConnected, sessionVars, cameraVars, go2rtcVars, frameVars, commandVars, logVars,
                  extractVars, now, streamData, forwarded, superVars >>

\* The registration of a stream with the transcoder's control API fails, and
\* the relay start that follows a success does not come: with a status other
\* than 200 ("status") the regeneration is requested; with a request error
\* ("error") the timer also starts the relay 5 s after the regeneration.
RegistrationFails(s, kind) ==
  /\ relayStarts[s] > 0
  /\ RequestRegenerationThen(RegistrationRestartDelayMs, IF kind = "status" THEN <<>> ELSE << s >>)
  /\ relayStarts' = [relayStarts EXCEPT ![s] = @ - 1]
  /\ written' = <<>>
  /\ extracted' = <<>>
  /\ lastEvent' = Event("registration:" \o kind, s)
  /\ emitted' = {}
  /\ published' = <<>>
  /\ UNCHANGED << apiConnected, sessionVars, jpegStreams, rtspFrameRelays, cameraStreams,
                  pendingStreams, go2rtcVars, frameVars, commandVars, logVars, extractVars, now,
                  streamData, relayData, forwarded, processes, handle, isQuitting,
                  relaunchTimer, configStarts, relayRestarts, regenerations >>

\* ------------------------------------------------- transcoder supervisor
\* stopRtspFrameRelay of every relay: the entries are deleted, and the timers
\* of a deleted entry find it inactive and do nothing.
NoRelays == [s \in Serials |-> NoRelayData]

\* A regeneration that leaves the relaunch timer pending: C30 must tell it
\* from the code's.
clearTimeoutNever(timer) == timer
\* clearTimeout(timer)
clearTimeout(timer) == <<>>

\* The callback of go2rtcRestartTimer: restartGo2rtcWithAllStreams().  The
\* relays stop, the configuration is written, the relaunch timer is cleared,
\* the process of the handle loses its 'close' listener and is killed, and
\* startGo2rtcWithConfig is set to run 500 ms later.
RestartTimer ==
  /\ go2rtcRestartTimer # <<>>
  /\ go2rtcRestartTimer[1].due <= now
  /\ Cardinality(configStarts) < MaxConfigStarts
  /\ go2rtcRestartTimer' = <<>>
  /\ relayRestarts' =
       IF go2rtcRestartTimer[1].then = <<>> THEN relayRestarts
       ELSE relayRestarts \cup { [due |-> now + ThenStartDelayMs, only |-> go2rtcRestartTimer[1].then] }
  /\ rtspFrameRelays' = [s \in Serials |-> FALSE]
  /\ relayData' = NoRelays
  /\ relaunchTimer' = clearTimeout(relaunchTimer)
  /\ go2rtcWatchdogTimer' = FALSE
  /\ processes' = [i \in ProcIds |->
       IF i = handle THEN Killed([processes[i] EXCEPT !.listening = FALSE]) ELSE processes[i]]
  /\ handle' = 0
  /\ go2rtcProcess' = FALSE
  /\ configStarts' = configStarts \cup { now + ConfigStartDelayMs }
  /\ regenerations' = Append(regenerations, [at |-> now, streams |-> cameraStreams])
  /\ written' = <<>>
  /\ extracted' = <<>>
  /\ lastEvent' = Event("go2rtc:regenerate", "")
  /\ emitted' = {}
  /\ published' = <<>>
  /\ UNCHANGED << apiConnected, sessionVars, jpegStreams, cameraStreams, pendingStreams,
                  relayStarts, go2rtcReady, readyTimers, frameVars, commandVars, logVars, extractVars,
                  now, streamData, forwarded, isQuitting, requests >>

\* The 500 ms timer of restartGo2rtcWithAllStreams: startGo2rtcWithConfig
\* spawns a process, takes it for the handle and arms the 3 s timer that starts
\* the relays.
ConfigStart(due) ==
  /\ due \in configStarts
  /\ due <= now
  /\ NextProc \in ProcIds
  /\ configStarts' = configStarts \ { due }
  /\ processes' = [processes EXCEPT ![NextProc] =
       SpawnedWith("startGo2rtcWithConfig", regenerations[Len(regenerations)].streams)]
  /\ handle' = NextProc
  /\ go2rtcProcess' = TRUE
  /\ go2rtcReady' = TRUE
  /\ relayRestarts' = relayRestarts \cup { [due |-> now + RelayRestartDelayMs, only |-> <<>>] }
  /\ written' = <<>>
  /\ extracted' = <<>>
  /\ lastEvent' = Event("go2rtc:config", "")
  /\ emitted' = {}
  /\ published' = <<>>
  /\ UNCHANGED << apiConnected, sessionVars, cameraVars, readyTimers, go2rtcWatchdogTimer,
                  frameVars, commandVars, logVars, extractVars, streamVars, isQuitting, relaunchTimer,
                  go2rtcRestartTimer, requests, regenerations >>

\* The 3 s timer of startGo2rtcWithConfig: a relay starts for every registered
\* stream that has none; and the 5 s timer after the regeneration a failed
\* registration asked for: a relay starts for its device if it has none.
RelayRestartTimer(tm) ==
  /\ tm \in relayRestarts
  /\ tm.due <= now
  /\ relayRestarts' = relayRestarts \ { tm }
  /\ LET starts == IF tm.only = <<>> THEN cameraStreams ELSE { tm.only[1] }
     IN  /\ rtspFrameRelays' = [s \in Serials |-> rtspFrameRelays[s] \/ s \in starts]
         /\ relayData' = [s \in Serials |->
              IF s \in starts /\ ~rtspFrameRelays[s] THEN StartedRelayData(now) ELSE relayData[s]]
  /\ written' = <<>>
  /\ extracted' = <<>>
  /\ lastEvent' = Event("go2rtc:relays", "")
  /\ emitted' = {}
  /\ published' = <<>>
  /\ UNCHANGED << apiConnected, sessionVars, jpegStreams, cameraStreams, pendingStreams,
                  relayStarts, go2rtcVars, frameVars, commandVars, logVars, extractVars, now,
                  streamData, forwarded, processes, handle, isQuitting, relaunchTimer,
                  go2rtcRestartTimer, configStarts, requests, regenerations >>

\* A transcoder process ends by itself.
ProcessExit(id) ==
  /\ processes[id].alive
  /\ processes' = [processes EXCEPT ![id] = Killed(@)]
  /\ written' = <<>>
  /\ extracted' = <<>>
  /\ lastEvent' = Event("go2rtc:exit", "")
  /\ emitted' = {}
  /\ published' = <<>>
  /\ UNCHANGED << apiConnected, sessionVars, cameraVars, go2rtcVars, frameVars, commandVars, logVars,
                  extractVars, streamVars, handle, isQuitting, relaunchTimer,
                  go2rtcRestartTimer, configStarts, relayRestarts, requests, regenerations >>

\* The 'close' listener arms the relaunch: the one startGo2rtc attaches does,
\* unless the application is quitting; the one startGo2rtcWithConfig attaches
\* does not.
Relaunches(pr) == pr.launcher = "startGo2rtc" /\ ~isQuitting

\* The 'close' event of a process that ended.  Both listeners clear the handle
\* and the ready flag.
ProcessClose(id) ==
  /\ processes[id].exiting
  /\ processes' = [processes EXCEPT ![id].exiting = FALSE]
  /\ IF processes[id].listening
       THEN /\ handle' = 0
            /\ go2rtcProcess' = FALSE
            /\ go2rtcReady' = FALSE
            /\ IF Relaunches(processes[id])
                 THEN /\ relaunchTimer' = << now + RelaunchDelayMs >>
                      /\ go2rtcWatchdogTimer' = TRUE
                 ELSE UNCHANGED << relaunchTimer, go2rtcWatchdogTimer >>
       ELSE UNCHANGED << handle, go2rtcProcess, go2rtcReady, relaunchTimer, go2rtcWatchdogTimer >>
  /\ written' = <<>>
  /\ extracted' = <<>>
  /\ lastEvent' = Event("go2rtc:close", "")
  /\ emitted' = {}
  /\ published' = <<>>
  /\ UNCHANGED << apiConnected, sessionVars, cameraVars, readyTimers, frameVars, commandVars, logVars,
                  extractVars, streamVars, isQuitting, go2rtcRestartTimer, configStarts,
                  relayRestarts, requests, regenerations >>

\* The callback of go2rtcWatchdogTimer: startGo2rtc() spawns a process, takes
\* it for the handle and arms its 2 s ready timer.
RelaunchTimer ==
  /\ relaunchTimer # <<>>
  /\ relaunchTimer[1] <= now
  /\ NextProc \in ProcIds
  /\ readyTimers < MaxReadyTimers
  /\ relaunchTimer' = <<>>
  /\ go2rtcWatchdogTimer' = FALSE
  /\ processes' = [processes EXCEPT ![NextProc] = Spawned("startGo2rtc")]
  /\ handle' = NextProc
  /\ go2rtcProcess' = TRUE
  /\ readyTimers' = readyTimers + 1
  /\ written' = <<>>
  /\ extracted' = <<>>
  /\ lastEvent' = Event("go2rtc:relaunch", "")
  /\ emitted' = {}
  /\ published' = <<>>
  /\ UNCHANGED << apiConnected, sessionVars, cameraVars, go2rtcReady, frameVars, commandVars, logVars,
                  extractVars, streamVars, isQuitting, go2rtcRestartTimer, configStarts,
                  relayRestarts, requests, regenerations >>

\* app.on('window-all-closed'): the application quits.  The reconnect timers of
\* the map and the relaunch timer are cleared, the relays and the Direct
\* sessions stop, the process of the handle is killed with its listener in
\* place, and disconnectApi ends the clients.
WindowAllClosed ==
  /\ ~isQuitting
  /\ isQuitting' = TRUE
  /\ printerReconnectTimers' = [s \in Serials |-> NoPrinter]
  /\ relaunchTimer' = <<>>
  /\ go2rtcWatchdogTimer' = FALSE
  /\ rtspFrameRelays' = [s \in Serials |-> FALSE]
  /\ relayData' = NoRelays
  /\ jpegStreams' = [s \in Serials |-> FALSE]
  /\ streamData' = [s \in Serials |->
       IF jpegStreams[s]
         THEN [streamData[s] EXCEPT !.watchdogTimer = FALSE, !.clients = 0,
                 !.live = IF streamData[s].socket THEN @ - 1 ELSE @,
                 !.closing = IF streamData[s].socket THEN @ + 1 ELSE @]
         ELSE streamData[s]]
  /\ processes' = [i \in ProcIds |-> IF i = handle THEN Killed(processes[i]) ELSE processes[i]]
  /\ apiConnected' = [i \in Upstreams |-> FALSE]
  /\ clients' = [s \in Serials |-> [c \in ClientIds |->
                   IF mqttClients[s] = c THEN [clients[s][c] EXCEPT !.st = "ending"]
                   ELSE clients[s][c]]]
  /\ mqttClients' = [s \in Serials |-> 0]
  /\ printers' = [s \in Serials |-> NoEntry]
  /\ written' = <<>>
  /\ extracted' = <<>>
  /\ lastEvent' = Event("window-all-closed", "")
  /\ emitted' = {}
  /\ published' = <<>>
  /\ UNCHANGED << printerDataCache, orphanTimers, reconnectAttempts, armedDelay, failures,
                  inRoster, cameraStreams, pendingStreams, relayStarts, go2rtcProcess,
                  go2rtcReady, readyTimers, frameVars, commandVars, logVars, extractVars, now,
                  forwarded, handle, go2rtcRestartTimer, configStarts, relayRestarts,
                  requests, regenerations >>

\* The streams of the extraction specification: garbage, a start marker, a
\* body of zero bytes, an end marker, garbage; neither garbage holds a marker.
\* The bodies make frames one byte under and one byte over the minimum.
Garbage == { <<>>, << "00" >>, << "D9", "FF" >>, << "D8", "00" >> }
Bodies == { [i \in 1..n |-> "00"] : n \in { MinJpegLength - 4, MinJpegLength - 3 } }
Streams == { [pre |-> a, body |-> b, post |-> c] : a \in Garbage, b \in Bodies, c \in Garbage }
FrameOf(st) == JPEG_START \o st.body \o JPEG_END
BytesOf(st) == st.pre \o FrameOf(st) \o st.post

\* The stream arrives whole or in two 'data' events, cut anywhere.
Chunkings(bytes) ==
  { << bytes >> } \cup
  { << SubSeq(bytes, 1, k), SubSeq(bytes, k + 1, Len(bytes)) >> : k \in 1..(Len(bytes) - 1) }

\* ------------------------------------------------------------ specifications
\* The state after start-up: no upstream connection yet, no device known, the
\* transcoder spawned by startGo2rtc with its 2 s ready timer pending.
Startup ==
  /\ apiConnected = [i \in Upstreams |-> FALSE]
  /\ mqttClients = [s \in Serials |-> 0]
  /\ clients = [s \in Serials |-> [c \in ClientIds |-> NoClient]]
  /\ printers = [s \in Serials |-> NoEntry]
  /\ printerDataCache = [s \in Serials |-> NoPrinter]
  /\ printerReconnectTimers = [s \in Serials |-> NoPrinter]
  /\ orphanTimers = [s \in Serials |-> <<>>]
  /\ reconnectAttempts = [s \in Serials |-> 0]
  /\ jpegStreams = [s \in Serials |-> FALSE]
  /\ rtspFrameRelays = [s \in Serials |-> FALSE]
  /\ cameraStreams = {}
  /\ pendingStreams = <<>>
  /\ relayStarts = [s \in Serials |-> 0]
  /\ go2rtcProcess = TRUE
  /\ go2rtcReady = FALSE
  /\ readyTimers = 1
  /\ go2rtcWatchdogTimer = FALSE
  /\ armedDelay = [s \in Serials |-> 0]
  /\ failures = [s \in Serials |-> 0]
  /\ inRoster = [s \in Serials |-> FALSE]
  /\ lastEvent = Event("start", "")
  /\ emitted = {}
  /\ published = <<>>
  /\ lastCommand = NoCommand
  /\ pushallTimers = [s \in Serials |-> 0]
  /\ lastFrame = NoPrint
  /\ deviceState = [s \in Serials |-> [before |-> <<>>, now |-> <<>>]]
  /\ prevEntry = NoEntry

Init == Startup /\ MediaIdle

\* The control sessions: roster events, client events, reconnect timers.
Next ==
  \/ \E i \in Upstreams : ApiConnect(i)
  \/ \E i \in Upstreams : ApiDisconnect(i)
  \/ DisconnectApi
  \/ \E s \in Primary : \E p \in RosterRecords(s, DirectModels) : PrinterAdd(s, p)
  \/ \E s \in Primary : \E p \in RosterRecords(s, DirectModels) : PrintersList(s, p)
  \/ \E s \in Primary : PrinterRemove(s)
  \/ \E s \in Primary : \E c \in ClientIds : ClientConnect(s, c)
  \/ \E s \in Primary : \E c \in ClientIds : \E f \in SessionFrames : ClientMessage(s, c, f)
  \/ \E s \in Primary : \E c \in ClientIds : ClientClose(s, c, MaxAttemptsSession)
  \/ \E s \in Primary : \E k \in 0..MaxOrphanTimers : ReconnectTimer(s, k)

Spec == Init /\ [][Next]_vars

\* The reconnect policy over long runs of failures.
NextBackoff ==
  \/ ApiConnect(1)
  \/ \E s \in Primary : \E p \in RosterRecords(s, DirectModels) : PrinterAdd(s, p)
  \/ \E s \in Primary : \E c \in ClientIds : ClientConnect(s, c)
  \/ \E s \in Primary : \E c \in ClientIds : ClientClose(s, c, MaxAttempts)
  \/ \E s \in Primary : \E k \in 0..MaxOrphanTimers : ReconnectTimer(s, k)

SpecBackoff == Init /\ [][NextBackoff]_vars

\* The sessions with the scheduling the runtime guarantees: a pending timer
\* expires.
NextLive ==
  \/ ApiConnect(1)
  \/ \E s \in Primary : \E p \in RosterRecords(s, DirectModels) : PrinterAdd(s, p)
  \/ \E s \in Primary : PrinterRemove(s)
  \/ \E s \in Primary : \E c \in ClientIds : ClientConnect(s, c)
  \/ \E s \in Primary : \E c \in ClientIds : ClientClose(s, c, MaxAttemptsSession)
  \/ \E s \in Primary : \E k \in 0..MaxOrphanTimers : ReconnectTimer(s, k)

SpecLive ==
  /\ Init
  /\ [][NextLive]_vars
  /\ WF_vars(\E s \in Primary : \E k \in 0..MaxOrphanTimers : ReconnectTimer(s, k))

\* The sessions of devices of both stream groups, with the transcoder.
NextCamera ==
  \/ ApiConnect(1)
  \/ \E s \in Primary : \E p \in RosterRecords(s, RosterModels) : PrinterAdd(s, p)
  \/ \E s \in Primary : PrinterRemove(s)
  \/ \E s \in Primary : \E c \in ClientIds : ClientConnect(s, c)
  \/ \E s \in Primary : \E c \in ClientIds : ClientClose(s, c, MaxAttemptsSession)
  \/ \E s \in Primary : \E k \in 0..MaxOrphanTimers : ReconnectTimer(s, k)
  \/ Go2rtcClose
  \/ Go2rtcRelaunch
  \/ Go2rtcReadyTimer
  \/ \E s \in Primary : RelayStart(s)

SpecCamera == Init /\ [][NextCamera]_vars

\* The frames of a device's session, from the state in which the first upstream
\* is connected, it has named the device s with the record p, and the device's
\* client has connected.
SessionStarted(s, p) ==
  /\ apiConnected = [i \in Upstreams |-> i = 1]
  /\ mqttClients = [r \in Serials |-> IF r = s THEN 1 ELSE 0]
  /\ clients = [r \in Serials |-> [c \in ClientIds |->
                  IF r = s /\ c = 1 THEN [st |-> "connected", printer |-> p, amsNozzleLock |-> <<>>] ELSE NoClient]]
  /\ printers = [r \in Serials |-> IF r = s THEN FreshEntry(p) ELSE NoEntry]
  /\ printerDataCache = [r \in Serials |-> IF r = s THEN p ELSE NoPrinter]
  /\ printerReconnectTimers = [r \in Serials |-> NoPrinter]
  /\ orphanTimers = [r \in Serials |-> <<>>]
  /\ reconnectAttempts = [r \in Serials |-> 0]
  /\ jpegStreams = [r \in Serials |-> r = s /\ getStreamGroup(p.model) = 1]
  /\ rtspFrameRelays = [r \in Serials |-> FALSE]
  /\ cameraStreams = {}
  /\ pendingStreams =
       IF getStreamGroup(p.model) = 2 THEN << [serial |-> s, model |-> p.model] >> ELSE <<>>
  /\ relayStarts = [r \in Serials |-> 0]
  /\ go2rtcProcess = TRUE
  /\ go2rtcReady = FALSE
  /\ readyTimers = 1
  /\ go2rtcWatchdogTimer = FALSE
  /\ armedDelay = [r \in Serials |-> 0]
  /\ failures = [r \in Serials |-> 0]
  /\ inRoster = [r \in Serials |-> r = s]
  /\ lastEvent = Event("connect", s)
  /\ emitted = {}
  /\ published = ConnectRequests(s)
  /\ lastCommand = NoCommand
  /\ pushallTimers = [r \in Serials |-> 0]
  /\ lastFrame = NoPrint
  /\ deviceState = [r \in Serials |-> [before |-> <<>>, now |-> <<>>]]
  /\ prevEntry = NoEntry

SessionOpen(s, p) == SessionStarted(s, p) /\ MediaIdle

InitTelemetry ==
  \E s \in Primary : \E p \in { q \in RosterRecords(s, RosterModels) : Connectable(q) } :
    SessionOpen(s, p)

NextTelemetry ==
  \E s \in Primary : \E c \in ClientIds : \E f \in TelemetryFrames : FrameStep(s, c, f)

SpecTelemetry == InitTelemetry /\ [][NextTelemetry]_vars

\* The commands of an open or lost session of one device, of every model
\* family the light commands tell apart.
CommandModels == RosterModels \cup { << "p", "1", "s" >>, <<>> }

InitCommands ==
  \E s \in Primary : \E p \in { q \in RosterRecords(s, CommandModels) : Connectable(q) } :
    SessionOpen(s, p)

NextCommands ==
  \/ \E s \in Primary : \E command \in Commands : ExecuteCommand(s, command, TRUE)
  \/ \E s \in Primary : \E command \in { c \in Commands : c.type = "amsFilamentSetting" } :
       ExecuteCommand(s, command, FALSE)
  \/ \E s \in Primary : \E command \in StringCommands : ExecuteCommand(s, command, TRUE)
  \/ \E s \in Primary : \E sent \in BOOLEAN : PushallTimer(s, sent)
  \/ \E s \in Primary : \E c \in ClientIds : ClientClose(s, c, MaxAttemptsCommands)
  \/ \E s \in Primary : \E k \in 0..MaxOrphanTimers : ReconnectTimer(s, k)
  \/ \E s \in Primary : \E c \in ClientIds : ClientConnect(s, c)

SpecCommands == InitCommands /\ [][NextCommands]_vars

\* Two devices side by side: the events of their control sessions and the
\* commands addressed to them.
IsolationCommands == { Cmd("pause") }
IsolationFrames == { Frame1("ctc_temp", KeyValue["ctc_temp"]) }

NextIsolation ==
  \/ ApiConnect(1)
  \/ \E s \in Serials : \E p \in RosterRecords(s, DirectModels) : PrinterAdd(s, p)
  \/ \E s \in Serials : \E c \in ClientIds : ClientConnect(s, c)
  \/ \E s \in Serials : \E c \in ClientIds : \E f \in IsolationFrames : ClientMessage(s, c, f)
  \/ \E s \in Primary : \E c \in ClientIds : ClientError(s, c)
  \/ \E s \in Serials : \E c \in ClientIds : ClientClose(s, c, MaxAttemptsCommands)
  \/ \E s \in Serials : \E k \in 0..MaxOrphanTimers : ReconnectTimer(s, k)
  \/ \E s \in Serials : \E command \in IsolationCommands : ExecuteCommand(s, command, TRUE)

SpecIsolation == Init /\ [][NextIsolation]_vars

\* The selection of the acquisition strategy: one device whose roster record
\* may name any of a range of models, among them none and an unknown one.
SelectionModels ==
  { <<>>, << "A", "1" >>, << "p", "1", "s" >>, << "Z", "9" >>,
    << "h", "2", "d" >>, << "X", "1", "C" >>, << "p", "2", "s" >> }

NextSelection ==
  \/ ApiConnect(1)
  \/ \E s \in Primary : \E p \in RosterRecords(s, SelectionModels) : PrinterAdd(s, p)
  \/ \E s \in Primary : \E c \in ClientIds : ClientConnect(s, c)
  \/ \E s \in Primary : \E c \in ClientIds : ClientClose(s, c, MaxAttemptsCommands)
  \/ \E s \in Primary : \E k \in 0..MaxOrphanTimers : ReconnectTimer(s, k)
  \/ Go2rtcReadyTimer
  \/ \E s \in Primary : RelayStart(s)

SpecSelection == Init /\ [][NextSelection]_vars

\* The camera session of one device, Direct or Relay by its model, from the
\* state in which the device's client has connected: frames and other bytes
\* arrive as time passes.
FrameWith(b) == JPEG_START \o [i \in 1..(MinJpegLength - 3) |-> b] \o JPEG_END
FrameA == FrameWith("00")
FrameB == FrameWith("01")
ShortFrame == JPEG_START \o [i \in 1..(MinJpegLength - 4) |-> "00"] \o JPEG_END
SessionChunks == { FrameA, FrameB, FrameA \o FrameB, ShortFrame, << "00" >> }

CaptureOpen(s, p) ==
  /\ SessionStarted(s, p)
  /\ ExtractIdle
  /\ SupervisorStarted
  /\ LogIdle
  /\ DecodeIdle
  /\ now = StartTime
  /\ streamData =
       [r \in Serials |-> IF jpegStreams[r] THEN StartedStreamData(StartTime) ELSE NoStreamData]
  /\ relayData = [r \in Serials |-> NoRelayData]
  /\ forwarded = [r \in Serials |-> <<>>]
  /\ extracted = <<>>
  /\ written = <<>>

InitStreams ==
  \E s \in Primary : \E p \in { q \in RosterRecords(s, RosterModels) : Connectable(q) } :
    CaptureOpen(s, p)

NextStreams ==
  \/ Tick(TickMs, ThrottleHorizon)
  \/ \E s \in Primary : \E chunk \in SessionChunks : JpegData(s, chunk)
  \/ \E s \in Primary : \E chunk \in SessionChunks : RelayData(s, chunk)
  \/ \E s \in Primary : Subscribe(s)
  \/ Go2rtcReadyTimer
  \/ \E s \in Primary : StartRtspFrameRelay(s)
  \/ \E s \in Primary : RelayResponseOk(s)

SpecStreams == InitStreams /\ [][NextStreams]_vars

\* The camera sessions over minutes: a session that stalls, its watchdog, the
\* reconnects, and the regeneration a relay's watchdog asks for.
WatchChunks == { FrameA, << "00" >> }

NextWatchdog ==
  \/ Advance(WatchdogIntervalMs, WatchHorizon)
  \/ \E s \in Primary : \E chunk \in WatchChunks : JpegData(s, chunk)
  \/ \E s \in Primary : JpegWatchdog(s)
  \/ \E s \in Primary : JpegSocketClose(s, FALSE, MaxStreamCloses)
  \/ \E s \in Primary : \E due \in streamData[s].timers : JpegReconnectTimer(s, due)
  \/ Go2rtcReadyTimer
  \/ \E s \in Primary : StartRtspFrameRelay(s)
  \/ \E s \in Primary : RelayResponseOk(s)
  \/ \E s \in Primary : \E chunk \in WatchChunks : RelayData(s, chunk)
  \/ \E s \in Primary : RelayWatchdog(s)
  \/ RestartTimer
  \/ \E due \in configStarts : ConfigStart(due)
  \/ \E tm \in relayRestarts : RelayRestartTimer(tm)

SpecWatchdog == InitStreams /\ [][NextWatchdog]_vars

\* The pull of a Relay device that fails again and again.
InitRelay ==
  \E s \in Primary : \E p \in { q \in RosterRecords(s, RosterModels) :
                                 Connectable(q) /\ getStreamGroup(q.model) = 2 } :
    CaptureOpen(s, p)

FailureKinds == { "status", "end", "error" }

NextRelay ==
  \/ Advance(WatchdogIntervalMs, RelayHorizon)
  \/ Go2rtcReadyTimer
  \/ \E s \in Primary : \E kind \in { "status", "error" } : RegistrationFails(s, kind)
  \/ \E s \in Primary : StartRtspFrameRelay(s)
  \/ \E s \in Primary : RelayResponseOk(s)
  \/ \E s \in Primary : \E kind \in FailureKinds : RelayFails(s, kind)
  \/ \E s \in Primary : \E due \in relayData[s].retryTimers : RelayRetryTimer(s, due)
  \/ \E s \in Primary : RelayWatchdog(s)
  \/ RestartTimer
  \/ \E due \in configStarts : ConfigStart(due)
  \/ \E tm \in relayRestarts : RelayRestartTimer(tm)

SpecRelay == InitRelay /\ [][NextRelay]_vars

\* The transcoder's supervisor: crashes, relaunches, regenerations asked for by
\* failed registrations, and the end of the application.  Once the application
\* quits only the 'close' events of its processes are still delivered.
RelayRecords(s) ==
  { q \in RosterRecords(s, RosterModels) : Connectable(q) /\ getStreamGroup(q.model) = 2 }

\* The state in which the clients of two Relay devices have connected, before
\* the transcoder is ready: both streams wait in pendingStreams.
SessionsStarted(printer) ==
  /\ apiConnected = [i \in Upstreams |-> i = 1]
  /\ mqttClients = [r \in Serials |-> 1]
  /\ clients = [r \in Serials |-> [c \in ClientIds |->
                  IF c = 1 THEN [st |-> "connected", printer |-> printer[r], amsNozzleLock |-> <<>>] ELSE NoClient]]
  /\ printers = [r \in Serials |-> FreshEntry(printer[r])]
  /\ printerDataCache = [r \in Serials |-> printer[r]]
  /\ printerReconnectTimers = [r \in Serials |-> NoPrinter]
  /\ orphanTimers = [r \in Serials |-> <<>>]
  /\ reconnectAttempts = [r \in Serials |-> 0]
  /\ jpegStreams = [r \in Serials |-> FALSE]
  /\ rtspFrameRelays = [r \in Serials |-> FALSE]
  /\ cameraStreams = {}
  /\ pendingStreams = << [serial |-> "SN1", model |-> printer["SN1"].model],
                          [serial |-> "SN2", model |-> printer["SN2"].model] >>
  /\ relayStarts = [r \in Serials |-> 0]
  /\ go2rtcProcess = TRUE
  /\ go2rtcReady = FALSE
  /\ readyTimers = 1
  /\ go2rtcWatchdogTimer = FALSE
  /\ armedDelay = [r \in Serials |-> 0]
  /\ failures = [r \in Serials |-> 0]
  /\ inRoster = [r \in Serials |-> TRUE]
  /\ lastEvent = Event("connect", "SN2")
  /\ emitted = {}
  /\ published = ConnectRequests("SN2")
  /\ lastCommand = NoCommand
  /\ pushallTimers = [r \in Serials |-> 0]
  /\ lastFrame = NoPrint
  /\ deviceState = [r \in Serials |-> [before |-> <<>>, now |-> <<>>]]
  /\ prevEntry = NoEntry

InitSupervisor ==
  \E printer \in [Serials -> UNION { RelayRecords(s) : s \in Serials }] :
    /\ \A s \in Serials : printer[s].serialNumber = s
    /\ SessionsStarted(printer)
    /\ MediaIdle

NextSupervisor ==
  \/ ~isQuitting /\ Advance(ConfigStartDelayMs, SuperHorizon)
  \/ ~isQuitting /\ Go2rtcReadyTimer
  \/ ~isQuitting /\ \E s \in Serials : \E kind \in { "status", "error" } : RegistrationFails(s, kind)
  \/ ~isQuitting /\ \E s \in Serials : StartRtspFrameRelay(s)
  \/ ~isQuitting /\ RestartTimer
  \/ ~isQuitting /\ \E due \in configStarts : ConfigStart(due)
  \/ ~isQuitting /\ \E tm \in relayRestarts : RelayRestartTimer(tm)
  \/ ~isQuitting /\ \E id \in ProcIds : ProcessExit(id)
  \/ ~isQuitting /\ RelaunchTimer
  \/ WindowAllClosed
  \/ \E id \in ProcIds : ProcessClose(id)

SpecSupervisor == InitSupervisor /\ [][NextSupervisor]_vars

\* The queue of the streams requested while the transcoder is not ready: one
\* Relay device has connected before the transcoder was ready, a second one
\* joins the roster and connects at any time, while registrations fail, the
\* transcoder is regenerated, or crashes and is relaunched.  The timers run
\* when they are due; crashes, failures and roster events need not happen.
\* The 3 s timer by which a regenerated transcoder starts the relays is due
\* after the end of the run.
Secondary == Serials \ Primary

InitQueue == \E s \in Primary : \E p \in RelayRecords(s) : SessionOpen(s, p)

NextQueue ==
  \/ Advance(ConfigStartDelayMs, QueueHorizon)
  \/ Go2rtcReadyTimer
  \/ \E s \in Secondary : \E p \in RelayRecords(s) : PrinterAdd(s, p)
  \/ \E s \in Secondary : \E c \in ClientIds : ClientConnect(s, c)
  \/ \E s \in Serials : RegistrationFails(s, "status")
  \/ \E s \in Serials : StartRtspFrameRelay(s)
  \/ RestartTimer
  \/ \E due \in configStarts : ConfigStart(due)
  \/ \E id \in ProcIds : ProcessExit(id)
  \/ \E id \in ProcIds : ProcessClose(id)
  \/ RelaunchTimer

SpecQueue ==
  /\ InitQueue
  /\ [][NextQueue]_vars
  /\ WF_vars(Advance(ConfigStartDelayMs, QueueHorizon))
  /\ WF_vars(Go2rtcReadyTimer)
  /\ WF_vars(\E s \in Serials : StartRtspFrameRelay(s))
  /\ WF_vars(RestartTimer)
  /\ WF_vars(\E due \in configStarts : ConfigStart(due))
  /\ WF_vars(\E id \in ProcIds : ProcessClose(id))
  /\ WF_vars(RelaunchTimer)

\* Frame extraction from a stream that arrives in pieces.
InitExtraction ==
  /\ Startup
  /\ StreamsIdle
  /\ SupervisorStarted
  /\ LogIdle
  /\ DecodeIdle
  /\ buffer = <<>>
  /\ produced = <<>>
  /\ streamIn \in Streams
  /\ chunks \in Chunkings(BytesOf(streamIn))

NextExtraction == DataChunk

SpecExtraction == InitExtraction /\ [][NextExtraction]_vars

\* The AMS units of a session's frames: a unit whose info has bit 8 set, one
\* whose info has it clear, one without info, and frames without units.
AmsFrames ==
  { Frame1("ams_units", << 256 >>), Frame1("ams_units", << 3 >>), Frame1("ams_units", <<>>),
    Frame1("gcode_state", "RUNNING"), Frame1("ctc_temp", KeyValue["ctc_temp"]), NoPrint }

NextAms ==
  \E s \in Primary : \E c \in ClientIds : \E f \in AmsFrames : FrameStep(s, c, f)

SpecAms == InitTelemetry /\ [][NextAms]_vars

\* The temperature decoding of every packed pair of sample temperatures, of
\* zero and of no value.
TempSamples == { 0, 1, 175, 220, 255, 256, 32767, 32768, 40000, 65534, 65535 }

\* (target << 16) | current, the 32-bit signed integer the operators work on
Pack(target, current) ==
  (IF target >= Mask16 \div 2 THEN target - Mask16 ELSE target) * Mask16 + current

InitDecode ==
  /\ Startup
  /\ ExtractIdle
  /\ StreamsIdle
  /\ SupervisorStarted
  /\ LogIdle
  /\ encodedTemp \in { <<>> } \cup { << Pack(t, c) >> : t \in TempSamples, c \in TempSamples }
  /\ decodedTemp = <<>>

DecodeTemp ==
  /\ decodedTemp = <<>>
  /\ decodedTemp' = << decodeTemp(encodedTemp) >>
  /\ lastEvent' = Event("decodeTemp", "")
  /\ emitted' = {}
  /\ published' = <<>>
  /\ UNCHANGED << apiConnected, sessionVars, cameraVars, go2rtcVars, frameVars, commandVars,
                  mqttErrorThrottle, errorLogged, armedAt, encodedTemp, mediaVars >>

NextDecode == DecodeTemp

SpecDecode == InitDecode /\ [][NextDecode]_vars

\* The control session of one device over a minute and more: transport errors,
\* closes and reconnects as time passes, with the second upstream joining.
\* The reconnect timer runs when its delay has passed.
InitErrorLog ==
  \E s \in Primary : \E p \in { q \in RosterRecords(s, DirectModels) : Connectable(q) } :
    SessionOpen(s, p)

NextErrorLog ==
  \/ Tick(ReconnectBaseMs, ErrorLogHorizon)
  \/ ApiConnect(2)
  \/ \E s \in Primary : \E c \in ClientIds : ClientError(s, c)
  \/ \E s \in Primary : \E c \in ClientIds : ClientClose(s, c, MaxAttemptsSession)
  \/ \E s \in Primary : now >= armedAt[s] + armedDelay[s] /\ ReconnectTimer(s, 0)
  \/ \E s \in Primary : \E c \in ClientIds : ClientConnect(s, c)

SpecErrorLog == InitErrorLog /\ [][NextErrorLog]_vars

\* ---------------------------------------------------------------- properties
Live(s) == { c \in ClientIds : clients[s][c].st \in { "connecting", "connected" } }
PendingTimers(s) ==
  (IF printerReconnectTimers[s] # NoPrinter THEN 1 ELSE 0) + Len(orphanTimers[s])

C2_NoReconnectAfterRemoval ==
  [][\A s \in Serials :
       (~inRoster[s] /\ ~inRoster'[s]) =>
         /\ reconnectAttempts'[s] <= reconnectAttempts[s]
         /\ \A c \in ClientIds :
              clients'[s][c].st = "connecting" => clients[s][c].st = "connecting"]_vars

\* C3: right after the device-removed handler, the device has no pending
\* reconnect timer, no client that is connecting or connected, and a reconnect
\* counter of 0.
C3_RemovalTearsDown ==
  \A s \in Serials :
    lastEvent = Event("printer:remove", s) =>
      /\ PendingTimers(s) = 0
      /\ Live(s) = {}
      /\ reconnectAttempts[s] = 0

\* C4: a device that is not in the roster has no camera-acquisition session:
\* no Direct session, no Relay pull, no registration, and no queued or delayed
\* start.
C4_NoCameraAfterRemoval ==
  \A s \in Serials :
    ~inRoster[s] =>
      /\ ~jpegStreams[s]
      /\ ~rtspFrameRelays[s]
      /\ s \notin cameraStreams
      /\ relayStarts[s] = 0
      /\ CountOf(pendingStreams, s) = 0

\* C5: at most one reconnect timer is pending per device at any time.
C5_OnePendingTimer == \A s \in Serials : PendingTimers(s) <= 1

\* C6: at any time each device has at most one control connection, counting
\* the connecting ones as well as the connected ones.
C6_OneConnection == \A s \in Serials : Cardinality(Live(s)) <= 1

\* C7: whenever the control connection of a roster device closes, or a connect
\* attempt for it fails, eventually a client for the device is connecting or
\* connected again, or the device has left the roster.
C7_NoTerminalState ==
  \A s \in Serials :
    (lastEvent = Event("close", s) /\ inRoster[s]) ~> (~inRoster[s] \/ Live(s) # {})

\* A reconnect timer opens a connection after two failures in a row.
C7_Witness ==
  \E s \in Serials :
    lastEvent = Event("timer:connect", s) /\ inRoster[s] /\ failures[s] >= 2 /\ Live(s) # {}

FieldKeys ==
  [ gcodeState |-> { "gcode_state" }, printProgress |-> { "mc_percent" },
    remainingTime |-> { "mc_remaining_time" }, currentFile |-> { "gcode_file" },
    layer |-> { "layer_num" },
    nozzleTemp |-> { "nozzle_temper", "device_extruder", "extruder" },
    nozzleTargetTemp |-> { "nozzle_target_temper", "device_extruder", "extruder" },
    nozzleTemp2 |-> { "nozzle_temper_2", "device_extruder", "extruder" },
    nozzleTargetTemp2 |-> { "nozzle_target_temper_2", "device_extruder", "extruder" },
    bedTemp |-> { "bed_temper" }, bedTargetTemp |-> { "bed_target_temper" },
    chamberTemp |-> { "chamber_temper", "info_temp", "ctc_temp" },
    wifiSignal |-> { "wifi_signal" }, printError |-> { "print_error" },
    printErrorCode |-> { "mc_print_error_code" }, hms |-> { "hms" } ]

\* The frame handled last moved the state the device reports from an
\* active-print state to IDLE or FINISH.
EndsPrint(s) ==
  /\ lastFrame.print
  /\ deviceState[s].before \in ActiveStates
  /\ deviceState[s].now \in IdleStates

C10_TransitionClears ==
  \A s \in Serials :
    (lastEvent = Event("message", s) /\ EndsPrint(s)) =>
      /\ printers[s].printProgress = << 0 >>
      /\ printers[s].remainingTime = << 0 >>
      /\ printers[s].nozzleTargetTemp = << 0 >>
      /\ printers[s].nozzleTargetTemp2 = << 0 >>
      /\ printers[s].bedTargetTemp = << 0 >>
      /\ printers[s].hms = << <<>> >>

\* C11: after the frame with gcode_state=RUNNING and mc_percent=42 the snapshot
\* shows state RUNNING and progress 42; after a following frame with
\* gcode_state=FINISH it shows progress 0 and target temperatures 0 and still
\* has the file name it had.
C11_EndToEndTelemetry ==
  \A s \in Serials :
    lastEvent = Event("message", s) =>
      /\ lastFrame = Frame2("RUNNING", "mc_percent", 42) =>
           /\ printers[s].gcodeState = << "RUNNING" >>
           /\ printers[s].printProgress = << 42 >>
      /\ (lastFrame = Frame1("gcode_state", "FINISH") /\ deviceState[s].before = << "RUNNING" >>) =>
           /\ printers[s].gcodeState = << "FINISH" >>
           /\ printers[s].printProgress = << 0 >>
           /\ printers[s].nozzleTargetTemp = << 0 >>
           /\ printers[s].nozzleTargetTemp2 = << 0 >>
           /\ printers[s].bedTargetTemp = << 0 >>
           /\ printers[s].currentFile = prevEntry.currentFile

\* C12: while a device stays in the roster its snapshot is not deleted, and a
\* close or a successful open of its session leaves every telemetry field of
\* the snapshot as it was.
C12_SnapshotNeverReplaced ==
  [][\A s \in Serials :
       (inRoster[s] /\ inRoster'[s] /\ printers[s].has) =>
         /\ printers'[s].has
         /\ lastEvent'.type \in { "close", "connect" } =>
              \A fld \in DOMAIN FieldKeys : printers'[s][fld] = printers[s][fld]]_vars

\* C13: the frame that moves the device from RUNNING, PAUSE or PREPARE to IDLE
\* or FINISH sets the actual nozzle, bed and chamber temperatures it does not
\* carry to 0; a later frame of the idle device leaves a temperature it does
\* not carry as it was.
C13_TemperaturesZeroedOnce ==
  \A s \in Serials :
    (lastEvent = Event("message", s) /\ lastFrame.print) =>
      \A fld \in { "nozzleTemp", "bedTemp", "chamberTemp" } :
        (\A k \in FieldKeys[fld] : lastFrame[k] = <<>>) =>
          IF EndsPrint(s)
            THEN printers[s][fld] = << 0 >>
            ELSE deviceState[s].now \in IdleStates => printers[s][fld] = prevEntry[fld]

\* C14: a frame without a print section leaves the device's snapshot as it
\* was, emits no status to any upstream and publishes nothing.
C14_NoPrintSectionDropped ==
  \A s \in Serials :
    (lastEvent = Event("message", s) /\ ~lastFrame.print) =>
      /\ printers[s] = prevEntry
      /\ emitted = {}
      /\ published = <<>>

\* A frame without a print section arrives when the snapshot holds a chamber
\* temperature.
C14_Witness ==
  \E s \in Serials :
    /\ lastEvent = Event("message", s) /\ ~lastFrame.print
    /\ prevEntry.chamberTemp = << 38 >>
    /\ printers[s] = prevEntry

\* C15: a frame whose handling raises an exception is discarded as a whole:
\* the snapshot of its device is what it was before the frame and no status
\* is emitted for it.
C15_ThrowingFrameDiscarded ==
  \A s \in Serials :
    (lastEvent = Event("message", s) /\ Throws(lastFrame)) =>
      /\ printers[s] = prevEntry
      /\ emitted = {}

\* C16: an event of device a's control session (connect, frame, transport
\* error, close, reconnect timer, command) leaves, for every other device b,
\* the snapshot, the registered client and the client objects (so b's frames
\* and commands are handled as before), the reconnect counter and the reconnect
\* timers unchanged.
SessionEventTypes ==
  { "connect", "message", "error", "close", "timer:connect", "timer:skip", "command" }

C16_PerDeviceIsolation ==
  [][\A a \in Serials : \A b \in Serials \ {a} :
       (lastEvent'.serialNumber = a /\ lastEvent'.type \in SessionEventTypes) =>
         /\ printers'[b] = printers[b]
         /\ mqttClients'[b] = mqttClients[b]
         /\ clients'[b] = clients[b]
         /\ reconnectAttempts'[b] = reconnectAttempts[b]
         /\ printerReconnectTimers'[b] = printerReconnectTimers[b]
         /\ orphanTimers'[b] = orphanTimers[b]]_vars

\* The session of SN1 has just closed while SN2 has an open session, a decoded
\* chamber temperature and a reconnect history of its own.
C16_Witness ==
  /\ lastEvent = Event("close", "SN1")
  /\ mqttClients["SN2"] # 0
  /\ printers["SN2"].online
  /\ printers["SN2"].chamberTemp = << 38 >>
  /\ failures["SN2"] = 0
  /\ printerReconnectTimers["SN1"] # NoPrinter

\* C17: a command whose type no case names, a calibration whose calibrationType
\* is neither home nor bed_level, and any command for a device without a
\* registered client publish nothing, arm nothing and change no session and no
\* snapshot.
KnownTypes ==
  DOMAIN PlainCommands
    \cup { "chamberLight", "light", "workLight", "nozzleTemp", "nozzle2Temp", "bedTemp",
           "partFan", "auxFan", "chamberFan", "speedLevel", "amsUnload", "unloadFilament",
           "amsLoad", "loadFilament", "gcode", "home", "calibration", "move",
           "heatbedLight", "ledFlashing", "amsFilamentSetting" }
Misused(cmd) ==
  \/ cmd.type \notin KnownTypes
  \/ cmd.type = "calibration" /\ cmd.calibrationType \notin { "home", "bed_level" }

C17_MisuseIgnored ==
  [][\A s \in Serials :
       (lastEvent' = Event("command", s) /\ (mqttClients[s] = 0 \/ Misused(lastCommand'))) =>
         /\ published' = <<>>
         /\ emitted' = {}
         /\ UNCHANGED << sessionVars, cameraVars, pushallTimers >>]_vars

\* A jog was addressed to a device whose session is lost and whose reconnect
\* timer is pending: nothing was published.
C17_Witness ==
  \E s \in Serials :
    /\ lastEvent = Event("command", s)
    /\ lastCommand.type = "move"
    /\ mqttClients[s] = 0
    /\ printerReconnectTimers[s] # NoPrinter
    /\ published = <<>>

\* C18: a move command for a device with a registered client publishes, within
\* the one handler and so with no other publish in between, exactly three
\* gcode_line payloads to that device: G91, then G0 <axis><distance> F3000 (the
\* axis and the distance the command names), then G90.
C18_JogSequence ==
  [][\A s \in Serials :
       (lastEvent' = Event("command", s) /\ lastCommand'.type = "move" /\ mqttClients[s] # 0) =>
         /\ Len(published') = 3
         /\ \A i \in 1..3 : published'[i].serial = s /\ published'[i].command = "gcode_line"
         /\ published'[1].param = << "G91" >>
         /\ published'[2].param[1] = "G0" /\ published'[2].param[4] = "F3000"
         /\ lastCommand'.axis # <<>> => published'[2].param[2] = lastCommand'.axis[1]
         /\ lastCommand'.distance \notin { <<>>, << 0 >> } =>
              published'[2].param[3] = lastCommand'.distance[1]
         /\ published'[3].param = << "G90" >>]_vars

\* A jog of Z by -5 has been published.
C18_Witness ==
  \E s \in Serials :
    /\ lastEvent = Event("command", s)
    /\ lastCommand.type = "move"
    /\ lastCommand.axis = << "Z" >>
    /\ lastCommand.distance = << -5 >>
    /\ Len(published) = 3
    /\ published[2].param = << "G0", "Z", -5, "F3000" >>

\* C19: every published payload has a sequence_id: '2006' with a user_id when
\* it is a gcode_line, '0' otherwise.
C19_EveryPayloadSequenced ==
  \A i \in 1..Len(published) :
    /\ published[i].sequence_id # <<>>
    /\ IF published[i].command = "gcode_line"
         THEN published[i].sequence_id = << "2006" >> /\ published[i].user_id # <<>>
         ELSE published[i].sequence_id = << "0" >>

\* C20: a fan command with speed s in 0..100 publishes the decimal product
\* 255 * s / 100 rounded to the nearest integer, halves up (128 for 50, 255
\* for 100, 0 for 0), which lies in 0..255 and does not decrease with s.
C20_FanSpeedTranslation ==
  \A s \in Serials :
    ( /\ lastEvent = Event("command", s)
      /\ lastCommand.type \in FanTypes
      /\ lastCommand.speed # <<>>
      /\ mqttClients[s] # 0 ) =>
        /\ Len(published) = 1
        /\ published[1].param[2] = (255 * lastCommand.speed[1] + 50) \div 100
        /\ published[1].param[2] \in 0..255
        /\ \A t \in 0..lastCommand.speed[1] : FanNative(t) <= published[1].param[2]

\* C21: workLight with on = true, for a device with a registered client whose
\* roster record names an A1 model (the family with two light channels),
\* publishes exactly two ledctrl payloads, chamber_light and work_light, both
\* with mode on; for a model of no family (P1S, or none at all) it publishes
\* exactly one, work_light with mode on.
SessionModel(s) == clients[s][mqttClients[s]].printer.model

C21_WorkLightChannels ==
  [][\A s \in Serials :
       ( /\ lastEvent' = Event("command", s)
         /\ lastCommand'.type = "workLight" /\ lastCommand'.on
         /\ mqttClients[s] # 0 ) =>
           /\ \A i \in 1..Len(published') :
                /\ published'[i].serial = s
                /\ published'[i].command = "ledctrl"
                /\ published'[i].param[2] = "on"
           /\ SessionModel(s) = << "A", "1" >> =>
                /\ Len(published') = 2
                /\ { published'[i].param[1] : i \in 1..2 } = { "chamber_light", "work_light" }
           /\ SessionModel(s) \in { << "p", "1", "s" >>, <<>> } =>
                /\ Len(published') = 1
                /\ published'[1].param[1] = "work_light"]_vars

\* The work light of an A1 was switched on over a session that had been lost
\* and opened again.
C21_Witness ==
  \E s \in Serials :
    /\ lastEvent = Event("command", s)
    /\ lastCommand.type = "workLight" /\ lastCommand.on
    /\ mqttClients[s] # 0
    /\ SessionModel(s) = << "A", "1" >>
    /\ Len(published) = 2

\* C22: every model, a missing one included, is put into exactly one stream
\* group: 2 when it contains a name of STREAM_GROUP_2 in any letter case, 1
\* otherwise.  The connect handler starts the Direct capture and nothing of the
\* relay for a model of group 1, and queues or registers the relay stream and
\* starts no Direct capture for a model of group 2; no other step starts a
\* Direct capture, and only models of group 2 are ever queued.
ExpectedGroup1 == { <<>>, << "A", "1" >>, << "p", "1", "s" >>, << "Z", "9" >> }
ExpectedGroup2 == { << "h", "2", "d" >>, << "X", "1", "C" >>, << "p", "2", "s" >> }

C22_OneStrategyPerModel ==
  [][\A s \in Serials :
       /\ \A c \in ClientIds :
            (clients[s][c].st = "connecting" /\ clients'[s][c].st = "connected") =>
              LET m == clients[s][c].printer.model
              IN  /\ m \in ExpectedGroup1 \cup ExpectedGroup2
                  /\ m \in ExpectedGroup1 =>
                       /\ jpegStreams'[s]
                       /\ UNCHANGED << pendingStreams, cameraStreams, relayStarts >>
                  /\ m \in ExpectedGroup2 =>
                       /\ jpegStreams'[s] = jpegStreams[s]
                       /\ IF go2rtcReady
                            THEN /\ relayStarts'[s] = relayStarts[s] + 1
                                 /\ s \in cameraStreams'
                            ELSE pendingStreams' =
                                   Append(pendingStreams, [serial |-> s, model |-> m])
       /\ lastEvent'.type # "connect" => jpegStreams'[s] = jpegStreams[s]
       /\ \A i \in 1..Len(pendingStreams') : pendingStreams'[i].model \in ExpectedGroup2]_vars

\* A device named as p2s has connected while the transcoder was ready: its
\* stream is registered and no Direct capture exists.
C22_Witness ==
  \E s \in Serials :
    /\ lastEvent = Event("connect", s)
    /\ mqttClients[s] # 0
    /\ clients[s][mqttClients[s]].printer.model = << "p", "2", "s" >>
    /\ go2rtcReady
    /\ relayStarts[s] = 1
    /\ ~jpegStreams[s]

\* C23: once a stream of garbage, a start marker, a body that makes a frame of
\* valid length, an end marker and garbage has arrived, in however many
\* pieces, exactly one frame has been produced, the bytes from the start marker
\* through the end marker; and as long as the end marker has not arrived in
\* full, no frame has been produced.
Delivered == Len(BytesOf(streamIn)) - (IF chunks = <<>> THEN 0 ELSE Len(chunks[Len(chunks)]))

C23_ExactlyOneFrame ==
  (streamIn # NoStream /\ lastEvent = Event("data", "")) =>
    /\ (chunks = <<>> /\ Len(FrameOf(streamIn)) > MinJpegLength) =>
         produced = << FrameOf(streamIn) >>
    /\ Delivered < Len(streamIn.pre) + Len(FrameOf(streamIn)) => produced = <<>>

\* C24: within a camera session, Direct or Relay, any two frames forwarded
\* upstream are at least 200 ms apart, however fast the frames arrive.
C24_ForwardsThrottled ==
  \A s \in Serials : \A i, j \in 1..Len(forwarded[s]) :
    i < j => forwarded[s][j].ts - forwarded[s][i].ts >= ThrottleMs

\* A Direct session has forwarded two frames exactly 200 ms apart, and the
\* frame handled last, inside the window, was not forwarded.
C24_Witness ==
  \E s \in Serials :
    /\ jpegStreams[s] /\ streamData[s].socket
    /\ Len(forwarded[s]) = 2
    /\ forwarded[s][2].ts - forwarded[s][1].ts = ThrottleMs
    /\ lastEvent = Event("jpeg:data", s)
    /\ extracted # <<>>
    /\ streamData[s].lastFrameTime > forwarded[s][2].ts

\* C25: in a Direct and in a Relay session alike, every frame of valid length
\* a data handler extracts is written to every local subscriber, and the last
\* of them is the session's last frame, whether or not it is forwarded
\* upstream.
C25_FramesReachConsumers ==
  \A s \in Serials :
    (lastEvent \in { Event("jpeg:data", s), Event("relay:data", s) } /\ extracted # <<>>) =>
      /\ jpegStreams[s]
      /\ streamData[s].lastFrame = << extracted[Len(extracted)] >>
      /\ \A k \in 1..Len(extracted) : \A c \in 1..streamData[s].clients :
           \E i \in 1..Len(written) : written[i] = [client |-> c, frame |-> extracted[k]]

\* C26: at a check of the watchdog of a session whose connection is open, when
\* the last valid frame is more than 60 s old, or no frame ever came and the
\* connection is more than 30 s old, whatever bytes came, the session
\* reconnects (a relay may ask for the regeneration instead).
Overdue(d, t) ==
  \/ d.lastFrameTime > 0 /\ t - d.lastFrameTime > SilenceLimitMs
  \/ d.lastFrameTime = 0 /\ t - d.connectTime > NoDataLimitMs
C26_WatchdogForcesReconnect ==
  [][\A s \in Primary :
       /\ (/\ lastEvent' = Event("jpeg:watchdog", s)
           /\ streamData[s].socket
           /\ Overdue(streamData[s], now))
            => (streamData'[s].connectTime = now /\ streamData'[s].closing = streamData[s].closing + 1)
       /\ (/\ lastEvent' = Event("relay:watchdog", s)
           /\ relayData[s].request = "open"
           /\ Overdue(relayData[s], now))
            => (relayData'[s].request = "pending" \/ go2rtcRestartTimer' # go2rtcRestartTimer)
    ]_vars

\* C27: a relay whose pulls keep failing (status other than 200, stream ended,
\* connection error) asks for the regeneration of the transcoder after a
\* bounded number of retries: the failures in a row of one relay, with no
\* response in between and no regeneration, never pass the limit of attempts.
C27_RelayEscalates ==
  \A s \in Primary : relayData[s].retries <= RelayAttemptsLimit

\* C28: when the 'close' event of a transcoder process that ended by itself
\* (its listener still attached) is handled while the application is not
\* quitting, the relaunch timer is armed for 3 s later, whichever function
\* spawned the process; while the application is quitting no relaunch timer
\* is armed.
C28_RelaunchAfterExit ==
  [][\A id \in ProcIds :
       (processes[id].exiting /\ ~processes'[id].exiting /\ processes[id].listening)
         => relaunchTimer' = (IF isQuitting THEN <<>> ELSE << now + RelaunchDelayMs >>)
    ]_vars

\* C29: at most one regeneration is in flight (between the kill and the
\* delayed start of the new process), and a request that arrives while one is
\* in flight arms no further regeneration.
InFlight == configStarts # {}
C29_RegenerationSerialized ==
  [][/\ Cardinality(configStarts') <= 1
     /\ (InFlight /\ requests' = requests + 1) => go2rtcRestartTimer' = go2rtcRestartTimer
    ]_vars
C29_OneInFlight == Cardinality(configStarts) <= 1

\* C30: at most one transcoder process is alive, and go2rtcProcess refers to
\* the process that is alive.
AliveProcs == { id \in ProcIds : processes[id].alive }
C31_StreamsReplayed ==
  [][(handle' # 0 /\ handle' # handle) => cameraStreams \subseteq processes'[handle'].streams]_vars

\* C32: two logged transport-error lines of one device are more than 60 seconds
\* apart: when the error handler logs a line for a device for which a line was
\* logged before, more than 60000 ms have passed since that line.
C32_ErrorLogThrottled ==
  [][\A s \in Serials :
       (lastEvent' = Event("error", s) /\ emitted' # {} /\ errorLogged[s] # <<>>) =>
         now' - errorLogged[s][1] > ErrorLogThrottleMs]_vars

\* C33: while the second upstream is connected, every status event and every
\* log line a handler emits to the primary upstream is emitted to the second
\* upstream as well.
C33_SecondUpstreamMirrors ==
  apiConnected[2] => \A e \in emitted : e.to = 1 => [e EXCEPT !.to = 2] \in emitted

\* C34: decoding (target << 16) | current, for current and target in 0..65535,
\* returns that current and that target; 0x00DC00AF decodes to current 175 and
\* target 220, and 0 (like no value) to current 0 and target 0.
C34_DecodeTemp ==
  /\ decodedTemp # <<>> =>
        /\ \A t \in TempSamples : \A c \in TempSamples :
              encodedTemp = << Pack(t, c) >> => decodedTemp[1] = [current |-> c, target |-> t]
        /\ encodedTemp = << 14418095 >> => decodedTemp[1] = [current |-> 175, target |-> 220]
        /\ encodedTemp \in { <<>>, << 0 >> } => decodedTemp[1] = [current |-> 0, target |-> 0]
  /\ Pack(220, 175) = 14418095

\* A value whose target has the top bit set has been decoded.
C34_Witness ==
  /\ encodedTemp = << Pack(40000, 175) >>
  /\ encodedTemp[1] < 0
  /\ decodedTemp = << [current |-> 175, target |-> 40000] >>

\* C35: once the extruder bit of the AMS unit has been observed in a session,
\* the snapshot reports that extruder for the unit after every frame of the
\* session, whatever the frame says about the unit.
C35_StickyExtruder ==
  \A s \in Serials : \A c \in ClientIds :
    (lastEvent = Event("message", s) /\ mqttClients[s] = c
       /\ clients[s][c].amsNozzleLock # <<>>) =>
      printers[s].amsNozzle = clients[s][c].amsNozzleLock

\* C36: an extracted frame is rejected exactly when it is shorter than 100
\* bytes: a 'data' event that brings one whole frame to an empty buffer yields
\* that frame when it has 100 bytes or more, markers included, and nothing
\* when it has fewer.
C36_RejectedBelowMinimum ==
  [][(buffer = <<>> /\ chunks # <<>> /\ Head(chunks) = FrameOf(streamIn)) =>
       produced' = produced \o (IF Len(FrameOf(streamIn)) >= MinJpegLength
                                  THEN << FrameOf(streamIn) >> ELSE <<>>)]_vars

\* C37: the frames produced do not depend on the cuts: when every 'data' event
\* of a stream has been handled, the frames produced are those of the stream
\* handled as one event.
C37_ChunkingIndependent ==
  chunks = <<>> => produced = processBuffer(BytesOf(streamIn), <<>>).frames

\* C38: a Direct session has at most one open socket and its socket field
\* refers to it.
C38_OneLiveSocket ==
  \A s \in Serials :
    jpegStreams[s] => /\ streamData[s].live <= 1
                      /\ streamData[s].live = 1 => streamData[s].socket

\* C39: after disconnectApi the sessions stay closed until a roster event of a
\* new upstream connection: the step that follows disconnectApi (no roster
\* event can, the upstream being disconnected) arms no reconnect timer and
\* opens no device connection.
C39_DisconnectStaysClosed ==
  [][lastEvent = Event("disconnectApi", "") =>
       \A s \in Serials : /\ PendingTimers(s)' <= PendingTimers(s)
                           /\ Live(s)' \subseteq Live(s)]_vars

\* C40: no stream stays queued for ever while the transcoder is ready: again
\* and again the queue is empty or the transcoder is not ready.
Queued == { pendingStreams[i].serial : i \in DOMAIN pendingStreams }

C40_QueuedEventuallyRegistered == []<>(~(go2rtcReady /\ Queued # {}))

====
